---- MODULE Spec2Model ----
(***************************************************************************)
(* Version lifecycle, edit-lock engine and login sessions of the DMS       *)
(* backend (backend/app/api/v1/document_versions.py, edit_locks.py,        *)
(* export.py, auth.py and the models they write).                          *)
(*                                                                         *)
(* One action per request handler.  The response of a handler (its HTTP    *)
(* status code and the detail it reports) is a function of the store and   *)
(* of the request, given by the handler's *_response operator; a handler   *)
(* that raises HTTPException before its commit changes no row.             *)
(***************************************************************************)
EXTENDS Integers, Sequences, FiniteSets, TLC

----------------------------------------------------------------------------
(* Bounds of the model *)

\* versions created over all documents
MaxVersions == 2
\* saves committed over all versions
MaxSaves == 1
\* the clock stops here
MaxTime == 15
\* minutes the clock advances in one step
TickStep == 5
\* versions the lock manager is run on
MaxLockVersions == 1
\* lock rows (and lock tokens) created in one run
MaxLocks == 2
\* saves committed in one editing session
MaxEdits == 2
\* versions the review with every role is run on
MaxReviewed == 1
\* saves of the version whose audit entries are counted
MaxAudited == 11

----------------------------------------------------------------------------
(* Program constants *)

\* EditLockAcquireRequest.timeout_minutes, EditLockHeartbeatRequest.extend_minutes:
\* Field(default=30, ge=5, le=120)
TIMEOUT_MIN == 5
TIMEOUT_MAX == 120

\* the timeouts a request may ask for: the ends of the allowed range
Timeouts == {TIMEOUT_MIN, TIMEOUT_MAX}

\* a nullable foreign key or token / a nullable DateTime holding NULL
NoId == 0
NoDate == 0 - 1

\* HTTP status codes of the responses
HTTP_200_OK == 200
HTTP_201_CREATED == 201
HTTP_204_NO_CONTENT == 204
HTTP_400_BAD_REQUEST == 400
HTTP_401_UNAUTHORIZED == 401
HTTP_403_FORBIDDEN == 403
HTTP_404_NOT_FOUND == 404
HTTP_409_CONFLICT == 409
HTTP_423_LOCKED == 423

\* save_version_content, line 768: an autosave is logged every 10th time
AUTOSAVE_AUDIT_EVERY == 10

\* Settings.ACCESS_TOKEN_EXPIRE_MINUTES
ACCESS_TOKEN_EXPIRE_MINUTES == 60

----------------------------------------------------------------------------
(* Users, roles, documents: rows that exist before any request of the core *)

Users == {"admin", "author1", "author2", "reviewer", "approver"}

\* User.roles
UserRoles ==
  [u \in Users |->
     CASE u = "admin"    -> {"DMS_Admin"}
       [] u = "author1"  -> {"Author"}
       [] u = "author2"  -> {"Author"}
       [] u = "reviewer" -> {"Reviewer"}
       [] OTHER          -> {"Approver"}]

has_role(u, role_name) == role_name \in UserRoles[u]

is_admin(u) == has_role(u, "DMS_Admin")

Docs == {"D1", "D2"}

\* Document.owner_id
DocOwner == [d \in Docs |-> IF d = "D1" THEN "author1" ELSE "author2"]

\* passwords a caller may type; verify_password accepts the user's own
Passwords == {"good", "bad"}

verify_password(password, u) == password = "good"

\* VersionStatus
VersionStatus ==
  {"DRAFT", "UNDER_REVIEW", "PENDING_APPROVAL", "APPROVED",
   "EFFECTIVE", "REJECTED", "OBSOLETE", "ARCHIVED"}

\* ChangeType
ChangeType == {"Minor", "Major"}

\* content_html is a sequence of strings: empty for "" (and for NULL, which
\* every reader treats as ""), <<body>> for a body with no signatory page,
\* and <<body, prepared, checked, approved>> for a body followed by the
\* signatory page of get_signatory_section_html.  An entry of the page is
\* one row of its table (name, designation, department and date, which are
\* replaced together): the tokens of the row, the -NA- defaults, or the
\* user whose name the row carries.
NoContent == <<>>
Body == <<"a">>
TOKEN == "{{SIGNATORY}}"
NA == "-NA-"

\* DocumentVersionSave.content_html; a version is created empty
Contents == {NoContent, Body}

\* an absent user of update_all_signatory_tokens, a NULL user column
NoUser == "none"

\* an absent content_hash of a request (an absent lock_token is NoId)
None == <<"None">>

\* version ids a request may name (one of them may not exist yet)
VersionIds == 1..MaxVersions

\* PublishRequest.effective_date: absent, or a date the caller supplies
EffectiveDates == {NoDate, 100}

----------------------------------------------------------------------------
VARIABLES
  versions,    \* document_versions rows, versions[i] has id i
  documents,   \* documents rows: current_version_id, status
  views,       \* document_views rows
  locks,       \* edit_locks rows
  nextLockId,  \* rows of edit_locks inserted so far (ids and tokens are fresh)
  now,         \* datetime.utcnow(), in minutes
  pc,          \* an in-flight request's position in its handler
  req,         \* an in-flight request's parameters and what it has read
  last,        \* what acquire_lock answered to the last request it served
  audit_logs,  \* audit_logs rows written by the save handler
  users,       \* users rows: the session columns and last_login
  issued       \* the access tokens create_access_token has signed so far

vars == <<versions, documents, views, locks, nextLockId, now, pc, req, last,
          audit_logs, users, issued>>

Procs == {"p1", "p2"}

\* a response: the status code and the detail of the HTTPException, if any
Response(code, detail) == [code |-> code, detail |-> detail]

\* a handler that goes on after a check that answers 400
Ok_or_bad_request(r) ==
  r.code \in {HTTP_200_OK, HTTP_201_CREATED, HTTP_204_NO_CONTENT,
              HTTP_400_BAD_REQUEST}

\* the handler raised no HTTPException
Ok(r) == r.code \in {HTTP_200_OK, HTTP_201_CREATED, HTTP_204_NO_CONTENT}

\* a worker that has served no request yet
IdleReq ==
  [op |-> "none", user |-> "none", doc |-> "none", ver |-> NoId,
   timeout |-> 0, seen |-> {}, effective_date |-> NoDate]

\* the answer to an acquire request: the status code, the lock_token of the
\* EditLockResponse, if there is one, and the branch of acquire_lock that gave
\* it: "refused" (lines 47-99), "refreshed" (100-105), "replaced" (106-128,
\* an expired row deleted), "created" (112-128), "lost" (129-134)
Answer(u, v, code, token, branch) ==
  [user |-> u, ver |-> v, code |-> code, lock_token |-> token,
   branch |-> branch]

\* the session columns of a users row nobody has logged in to
NoSession ==
  [active_session_token |-> None, session_created_at |-> NoDate,
   last_login |-> NoDate]

Init ==
  /\ versions = <<>>
  /\ documents = [d \in Docs |-> [current_version_id |-> NoId, status |-> "Draft"]]
  /\ views = {}
  /\ locks = {}
  /\ nextLockId = 0
  /\ now = 0
  /\ pc = [p \in Procs |-> "idle"]
  /\ req = [p \in Procs |-> IdleReq]
  /\ last = Answer("none", NoId, 0, NoId, "none")
  /\ audit_logs = {}
  /\ users = [u \in Users |-> NoSession]
  /\ issued = {}

----------------------------------------------------------------------------
(* Queries *)

\* db.query(DocumentVersion).filter(id == version_id, document_id == document_id).first()
version_found(d, v) == v \in 1..Len(versions) /\ versions[v].document_id = d

VersionsOf(d) == {i \in 1..Len(versions) : versions[i].document_id = d}

\* get_next_version_number
get_next_version_number(d) ==
  IF VersionsOf(d) = {} THEN 1
  ELSE LET m == CHOOSE i \in VersionsOf(d) :
                  \A j \in VersionsOf(d) :
                     versions[j].version_number <= versions[i].version_number
       IN versions[m].version_number + 1

\* has_user_viewed_content
has_user_viewed_content(u, v) ==
  \E r \in views : r.version_id = v /\ r.user_id = u

\* a view gate that asks no one to view
requires_content_view_never(u, v) == FALSE

\* requires_content_view
requires_content_view(u, v) ==
  IF versions[v].status \notin {"UNDER_REVIEW", "PENDING_APPROVAL"} THEN FALSE
  ELSE IF versions[v].status = "UNDER_REVIEW" /\ has_role(u, "Reviewer") THEN TRUE
  ELSE IF versions[v].status = "PENDING_APPROVAL" /\ has_role(u, "Approver") THEN TRUE
  ELSE IF is_admin(u) THEN TRUE
  ELSE FALSE

\* can_create_version
can_create_version(u, d) ==
  IF is_admin(u) THEN TRUE
  ELSE IF has_role(u, "Author") /\ DocOwner[d] = u THEN TRUE
  ELSE FALSE

\* can_edit_version
can_edit_version(u, d, v) ==
  IF versions[v].status # "DRAFT" THEN FALSE
  ELSE IF is_admin(u) THEN TRUE
  ELSE IF has_role(u, "Author")
          /\ (DocOwner[d] = u \/ versions[v].created_by_id = u) THEN TRUE
  ELSE FALSE

\* compute_content_hash: SHA-256 of the content, taken as collision free
compute_content_hash(content) == <<"sha256", content>>

\* update_all_signatory_tokens, lines 158-163
has_signatory_section(content_html) == Len(content_html) = 4

\* get_signatory_section_html: the page holds tokens only
get_signatory_section_html == <<TOKEN, TOKEN, TOKEN>>

\* update_all_signatory_tokens, lines 170-201: a row of -NA- defaults gets
\* its tokens back when there is a user for it
restore_tokens(entry, user) ==
  IF user # NoUser /\ entry = NA THEN TOKEN ELSE entry

\* replace_only_provided_tokens: a row that still holds its tokens gets the
\* user there is for it, every other row is kept
replace_only_provided_tokens(entry, user) ==
  IF user # NoUser /\ entry = TOKEN THEN user ELSE entry

\* update_all_signatory_tokens
update_all_signatory_tokens(content_html, prepared_user, checked_user, approved_user) ==
  LET page == IF ~has_signatory_section(content_html)
              THEN <<IF content_html = NoContent THEN "" ELSE content_html[1]>>
                   \o get_signatory_section_html
              ELSE <<content_html[1], content_html[2],
                     restore_tokens(content_html[3], checked_user),
                     restore_tokens(content_html[4], approved_user)>>
  IN <<page[1],
       replace_only_provided_tokens(page[2], prepared_user),
       replace_only_provided_tokens(page[3], checked_user),
       replace_only_provided_tokens(page[4], approved_user)>>

\* EditLock.is_expired at time t, were the lock to expire at its deadline
is_expired_at_deadline(lock, t) == t >= lock.expires_at

\* EditLock.is_expired at time t
is_expired(lock, t) == t > lock.expires_at

\* _compute_next_version_string on a well-formed <<major, minor>>
compute_next_version_string(parent, change_type) ==
  IF change_type = "Major" THEN <<parent[1] + 1, 0>>
  ELSE <<parent[1], parent[2] + 1>>

NewVersion(d, number, vstring, parent, content, u) ==
  [document_id |-> d, version_number |-> number, version_string |-> vstring,
   parent_version_id |-> parent, is_latest |-> TRUE,
   replaced_by_version_id |-> NoId, status |-> "DRAFT",
   content_html |-> content, content_hash |-> compute_content_hash(content),
   lock_version |-> 0,
   effective_date |-> NoDate, obsolete_date |-> NoDate, created_by_id |-> u,
   submitted_by_id |-> NoUser, reviewed_by_id |-> NoUser]

----------------------------------------------------------------------------
(* Version handlers (document_versions.py).  Documents are never deleted   *)
(* by the core, so "Document not found" is not reachable and is left out.  *)

create_version_response(u, d) ==
  IF ~can_create_version(u, d)
  THEN Response(HTTP_403_FORBIDDEN,
                "Not authorized to create versions for this document")
  ELSE Response(HTTP_201_CREATED, "")

\* POST /{document_id}/versions
create_version(u, d) ==
  IF ~Ok(create_version_response(u, d)) THEN UNCHANGED vars
  ELSE /\ Len(versions) < MaxVersions
       /\ LET number == get_next_version_number(d)
              id == Len(versions) + 1
          IN /\ versions' = Append(versions,
                                   NewVersion(d, number, <<0, number>>, NoId, NoContent, u))
             /\ documents' = [documents EXCEPT ![d] =
                                [current_version_id |-> id, status |-> "DRAFT"]]
       /\ UNCHANGED <<views, locks, nextLockId, now, pc, req, last,
                      audit_logs, users, issued>>

create_new_version_response(u, d, v) ==
  IF ~can_create_version(u, d)
  THEN Response(HTTP_403_FORBIDDEN,
                "Not authorized to create versions for this document")
  ELSE IF ~version_found(d, v)
  THEN Response(HTTP_404_NOT_FOUND, "Parent version not found")
  ELSE IF versions[v].status # "EFFECTIVE"
  THEN Response(HTTP_400_BAD_REQUEST,
                "Can only create new version from Effective versions")
  ELSE IF \E i \in VersionsOf(d) : versions[i].status = "DRAFT"
  THEN Response(HTTP_400_BAD_REQUEST, "A draft version already exists")
  ELSE Response(HTTP_201_CREATED, "")

\* POST /{document_id}/versions/{version_id}/create-new
create_new_version_from_existing(u, d, v) ==
  IF ~Ok(create_new_version_response(u, d, v)) THEN UNCHANGED vars
  ELSE /\ Len(versions) < MaxVersions
       /\ \E change_type \in ChangeType :
          LET number == get_next_version_number(d)
              id == Len(versions) + 1
              vstring == compute_next_version_string(versions[v].version_string,
                                                     change_type)
          IN /\ versions' = Append([versions EXCEPT ![v].is_latest = FALSE],
                                   NewVersion(d, number, vstring, v,
                                              versions[v].content_html, u))
             /\ documents' = [documents EXCEPT ![d] =
                                [current_version_id |-> id, status |-> "DRAFT"]]
       /\ UNCHANGED <<views, locks, nextLockId, now, pc, req, last,
                      audit_logs, users, issued>>

\* saves committed so far: the sum of lock_version over the first n versions
RECURSIVE saves_committed(_)
saves_committed(n) ==
  IF n = 0 THEN 0 ELSE versions[n].lock_version + saves_committed(n - 1)

\* a save that does not compare the content hash
save_response_unchecked(u, d, v, lock_token, content_hash) ==
  IF ~version_found(d, v)
  THEN Response(HTTP_404_NOT_FOUND, "Version not found")
  ELSE IF ~can_edit_version(u, d, v)
  THEN Response(HTTP_403_FORBIDDEN,
                "Not authorized to edit this version or version is not a draft")
  ELSE IF \E lock \in locks :
            lock.document_version_id = v /\ lock.user_id # u
  THEN Response(HTTP_403_FORBIDDEN, "Version is locked by another user")
  ELSE IF \E lock \in locks :
            /\ lock.document_version_id = v
            /\ lock_token # NoId
            /\ lock.lock_token # lock_token
  THEN Response(HTTP_403_FORBIDDEN, "Invalid lock token")
  ELSE IF \E lock \in locks :
            lock.document_version_id = v /\ is_expired(lock, now)
  THEN Response(HTTP_403_FORBIDDEN, "Lock has expired, please reacquire")
  ELSE Response(HTTP_200_OK, "")

\* a save that does not look at who owns the lock
save_response_any_owner(u, d, v, lock_token, content_hash) ==
  IF ~version_found(d, v)
  THEN Response(HTTP_404_NOT_FOUND, "Version not found")
  ELSE IF ~can_edit_version(u, d, v)
  THEN Response(HTTP_403_FORBIDDEN,
                "Not authorized to edit this version or version is not a draft")
  ELSE IF \E lock \in locks :
            /\ lock.document_version_id = v
            /\ lock_token # NoId
            /\ lock.lock_token # lock_token
  THEN Response(HTTP_403_FORBIDDEN, "Invalid lock token")
  ELSE IF \E lock \in locks :
            lock.document_version_id = v /\ is_expired(lock, now)
  THEN Response(HTTP_403_FORBIDDEN, "Lock has expired, please reacquire")
  ELSE IF content_hash # None /\ versions[v].content_hash # content_hash
  THEN [code |-> HTTP_409_CONFLICT,
        detail |-> "Content has been modified by another user",
        current_content_hash |-> versions[v].content_hash]
  ELSE Response(HTTP_200_OK, "")

save_response(u, d, v, lock_token, content_hash) ==
  IF ~version_found(d, v)
  THEN Response(HTTP_404_NOT_FOUND, "Version not found")
  ELSE IF ~can_edit_version(u, d, v)
  THEN Response(HTTP_403_FORBIDDEN,
                "Not authorized to edit this version or version is not a draft")
  ELSE IF \E lock \in locks :
            lock.document_version_id = v /\ lock.user_id # u
  THEN Response(HTTP_403_FORBIDDEN, "Version is locked by another user")
  ELSE IF \E lock \in locks :
            /\ lock.document_version_id = v
            /\ lock_token # NoId
            /\ lock.lock_token # lock_token
  THEN Response(HTTP_403_FORBIDDEN, "Invalid lock token")
  ELSE IF \E lock \in locks :
            lock.document_version_id = v /\ is_expired(lock, now)
  THEN Response(HTTP_403_FORBIDDEN, "Lock has expired, please reacquire")
  ELSE IF content_hash # None /\ versions[v].content_hash # content_hash
  THEN \* lines 743-750: X-Current-Content-Hash carries the stored hash
       [code |-> HTTP_409_CONFLICT,
        detail |-> "Content has been modified by another user",
        current_content_hash |-> versions[v].content_hash]
  ELSE Response(HTTP_200_OK, "")

\* a save that does not count itself
save_writes_uncounted(rows, v, content_html) ==
  [rows EXCEPT ![v].content_html = content_html,
               ![v].content_hash = compute_content_hash(content_html)]

\* save_version_content, lines 759-762: the row an accepted save writes
\* (updated_at, which no handler reads, is left out)
save_writes(rows, v, content_html) ==
  [rows EXCEPT ![v].content_html = content_html,
               ![v].content_hash = compute_content_hash(content_html),
               ![v].lock_version = @ + 1]

\* save_version_content, line 768: whether a save that left the version at
\* lock_version is logged
is_audited(is_autosave, lock_version) ==
  ~is_autosave \/ (is_autosave /\ lock_version % AUTOSAVE_AUDIT_EVERY = 0)

\* save_version_content, lines 770-787: the audit_logs row of a save (the
\* user, the description and the hashes, which no handler reads, are left
\* out)
SaveAudit(v, is_autosave, lock_version) ==
  [action |-> IF is_autosave THEN "VERSION_AUTOSAVED" ELSE "VERSION_SAVED",
   entity_id |-> v, is_autosave |-> is_autosave,
   lock_version |-> lock_version]

\* save_version_content, lines 767-787: the audit log after a save
save_audits(logs, v, is_autosave, lock_version) ==
  IF is_audited(is_autosave, lock_version)
  THEN logs \cup {SaveAudit(v, is_autosave, lock_version)}
  ELSE logs

\* POST /{document_id}/versions/{version_id}/save with every field of
\* DocumentVersionSave: what the handler does to the store (what the caller
\* keeps of the answer is said where it is used)
save(u, d, v, content_html, lock_token, content_hash, is_autosave) ==
  /\ IF Ok(save_response(u, d, v, lock_token, content_hash))
     THEN /\ versions' = save_writes(versions, v, content_html)
          /\ audit_logs' = save_audits(audit_logs, v, is_autosave,
                                       versions'[v].lock_version)
     ELSE UNCHANGED <<versions, audit_logs>>
  /\ UNCHANGED <<documents, views, locks, nextLockId, now, pc, req,
                 users, issued>>

\* the same request with is_autosave left at its default, False
save_version_content(u, d, v, content_html, lock_token, content_hash) ==
  save(u, d, v, content_html, lock_token, content_hash, FALSE)

\* an e-signature that accepts any password
verify_esignature_any_password(u, password) == TRUE

\* verify_esignature
verify_esignature(u, password) == verify_password(password, u)

\* a submit that does not look at the status of the version
submit_response_any_status(u, d, v, password) ==
  IF ~verify_esignature(u, password)
  THEN Response(HTTP_401_UNAUTHORIZED, "E-signature authentication failed")
  ELSE IF ~version_found(d, v)
  THEN Response(HTTP_404_NOT_FOUND, "Version not found")
  ELSE IF ~(has_role(u, "Author") \/ is_admin(u))
  THEN Response(HTTP_403_FORBIDDEN,
                "Only Authors and Admins can submit for review")
  ELSE Response(HTTP_200_OK, "")

\* signed(rows, v, content): row v with its content and fingerprint replaced
signed(rows, v, content_html) ==
  [rows EXCEPT ![v].content_html = content_html,
               ![v].content_hash = compute_content_hash(content_html)]

\* submit_for_review, lines 1154-1177: the row an accepted submit writes
\* (submitted_at and updated_at, which no handler reads, are left out).
\* submitted_by_id is read by approve_version only, and only to sign a
\* content that is not empty; where requests run one at a time the content
\* of a version cannot change between its submit and its approval, so the
\* row keeps submitted_by_id for a submit that signs a content, and for no
\* other
submit_writes(rows, v, u) ==
  LET moved == [rows EXCEPT ![v].status = "UNDER_REVIEW"]
  IN IF rows[v].content_html # NoContent
     THEN signed([moved EXCEPT ![v].submitted_by_id = u], v,
                 update_all_signatory_tokens(rows[v].content_html,
                                             u, NoUser, NoUser))
     ELSE moved

\* a submit that releases the edit lock of the version it submits
submit_for_review_unlocking(u, d, v, password) ==
  IF ~(/\ verify_esignature(u, password)
       /\ version_found(d, v)
       /\ (has_role(u, "Author") \/ is_admin(u))
       /\ versions[v].status = "DRAFT")
  THEN UNCHANGED vars
  ELSE /\ versions' = submit_writes(versions, v, u)
       /\ locks' = {lock \in locks : lock.document_version_id # v}
       /\ UNCHANGED <<documents, views, nextLockId, now, pc, req, last,
                      audit_logs, users, issued>>

submit_response(u, d, v, password) ==
  IF ~verify_esignature(u, password)
  THEN Response(HTTP_401_UNAUTHORIZED, "E-signature authentication failed")
  ELSE IF ~version_found(d, v)
  THEN Response(HTTP_404_NOT_FOUND, "Version not found")
  ELSE IF ~(has_role(u, "Author") \/ is_admin(u))
  THEN Response(HTTP_403_FORBIDDEN,
                "Only Authors and Admins can submit for review")
  ELSE IF versions[v].status # "DRAFT"
  THEN Response(HTTP_400_BAD_REQUEST, "Can only submit Draft versions")
  ELSE Response(HTTP_200_OK, "")

\* POST /{document_id}/versions/{version_id}/submit
submit_for_review(u, d, v, password) ==
  IF ~Ok(submit_response(u, d, v, password)) THEN UNCHANGED vars
  ELSE /\ versions' = submit_writes(versions, v, u)
       /\ UNCHANGED <<documents, views, locks, nextLockId, now, pc, req, last,
                      audit_logs, users, issued>>

\* an approve that lets any caller approve the review
approve_response_any_role(u, d, v, password) ==
  IF ~verify_esignature(u, password)
  THEN Response(HTTP_401_UNAUTHORIZED, "E-signature authentication failed")
  ELSE IF ~version_found(d, v)
  THEN Response(HTTP_404_NOT_FOUND, "Version not found")
  ELSE IF requires_content_view(u, v) /\ ~has_user_viewed_content(u, v)
  THEN Response(HTTP_400_BAD_REQUEST, "You must view the document content")
  ELSE IF versions[v].status = "UNDER_REVIEW"
  THEN Response(HTTP_200_OK, "")
  ELSE IF versions[v].status = "PENDING_APPROVAL"
  THEN IF ~(has_role(u, "Approver") \/ is_admin(u))
       THEN Response(HTTP_403_FORBIDDEN,
                     "Only Approvers and Admins can approve document")
       ELSE Response(HTTP_200_OK, "")
  ELSE Response(HTTP_400_BAD_REQUEST, "Cannot approve version with status")

approve_response(u, d, v, password) ==
  IF ~verify_esignature(u, password)
  THEN Response(HTTP_401_UNAUTHORIZED, "E-signature authentication failed")
  ELSE IF ~version_found(d, v)
  THEN Response(HTTP_404_NOT_FOUND, "Version not found")
  ELSE IF requires_content_view(u, v) /\ ~has_user_viewed_content(u, v)
  THEN Response(HTTP_400_BAD_REQUEST, "You must view the document content")
  ELSE IF versions[v].status = "UNDER_REVIEW"
  THEN IF ~(has_role(u, "Reviewer") \/ is_admin(u))
       THEN Response(HTTP_403_FORBIDDEN,
                     "Only Reviewers and Admins can approve review")
       ELSE Response(HTTP_200_OK, "")
  ELSE IF versions[v].status = "PENDING_APPROVAL"
  THEN IF ~(has_role(u, "Approver") \/ is_admin(u))
       THEN Response(HTTP_403_FORBIDDEN,
                     "Only Approvers and Admins can approve document")
       ELSE Response(HTTP_200_OK, "")
  ELSE Response(HTTP_400_BAD_REQUEST, "Cannot approve version with status")

\* approve_version, lines 1265-1339: the row an accepted approve writes
\* (reviewed_at, approved_at, approved_by_id and updated_at, which no handler
\* reads, are left out; reviewed_by_id is kept, as submitted_by_id is, for
\* an approval that signs a content)
approve_writes(rows, v, u) ==
  IF rows[v].status = "UNDER_REVIEW"
  THEN LET moved == [rows EXCEPT ![v].status = "PENDING_APPROVAL"]
       IN IF rows[v].content_html # NoContent
          THEN signed([moved EXCEPT ![v].reviewed_by_id = u], v,
                      update_all_signatory_tokens(rows[v].content_html,
                                                  rows[v].submitted_by_id,
                                                  u, NoUser))
          ELSE moved
  ELSE LET moved == [rows EXCEPT ![v].status = "APPROVED"]
       IN IF rows[v].content_html # NoContent
          THEN signed(moved, v,
                      update_all_signatory_tokens(rows[v].content_html,
                                                  rows[v].submitted_by_id,
                                                  rows[v].reviewed_by_id, u))
          ELSE moved

\* POST /{document_id}/versions/{version_id}/approve
approve_version(u, d, v, password) ==
  IF ~Ok(approve_response(u, d, v, password)) THEN UNCHANGED vars
  ELSE /\ versions' = approve_writes(versions, v, u)
       /\ UNCHANGED <<documents, views, locks, nextLockId, now, pc, req, last,
                      audit_logs, users, issued>>

reject_response(u, d, v, password) ==
  IF ~verify_esignature(u, password)
  THEN Response(HTTP_401_UNAUTHORIZED, "E-signature authentication failed")
  ELSE IF ~version_found(d, v)
  THEN Response(HTTP_404_NOT_FOUND, "Version not found")
  ELSE IF requires_content_view(u, v) /\ ~has_user_viewed_content(u, v)
  THEN Response(HTTP_400_BAD_REQUEST, "You must view the document content")
  ELSE IF ~(has_role(u, "Reviewer") \/ has_role(u, "Approver") \/ is_admin(u))
  THEN Response(HTTP_403_FORBIDDEN,
                "Only Reviewers, Approvers, and Admins can reject documents")
  ELSE IF versions[v].status \notin {"UNDER_REVIEW", "PENDING_APPROVAL"}
  THEN Response(HTTP_400_BAD_REQUEST, "Cannot reject version with status")
  ELSE Response(HTTP_200_OK, "")

\* a rejection that stores the status named after it
reject_writes_rejected(rows, v) == [rows EXCEPT ![v].status = "REJECTED"]

\* reject_version, lines 1443-1449: the version returns to DRAFT
reject_writes(rows, v) == [rows EXCEPT ![v].status = "DRAFT"]

\* POST /{document_id}/versions/{version_id}/reject
reject_version(u, d, v, password) ==
  IF ~Ok(reject_response(u, d, v, password)) THEN UNCHANGED vars
  ELSE /\ versions' = reject_writes(versions, v)
       /\ UNCHANGED <<documents, views, locks, nextLockId, now, pc, req, last,
                      audit_logs, users, issued>>

\* a publish that finds no previous EFFECTIVE version
no_previous_effective_versions(d, v) == {}

\* publish_version, lines 1549-1554: the other versions of the document
\* that are EFFECTIVE
previous_effective_versions(d, v) ==
  {i \in 1..Len(versions) :
     /\ versions[i].document_id = d
     /\ versions[i].status = "EFFECTIVE"
     /\ i # v}

\* a publish that numbers every version it publishes v1.0
published_version_string_always(vstring) == <<1, 0>>

\* publish_version, lines 1570-1572: a version_string "v0.x" becomes "v1.0"
published_version_string(vstring) ==
  IF vstring[1] = 0 THEN <<1, 0>> ELSE vstring

\* a publish that retires the previous versions without linking them to v
publish_writes_unlinked(rows, v, prev, effective_date, t) ==
  [i \in 1..Len(rows) |->
     IF i = v
     THEN [rows[i] EXCEPT
             !.version_string = IF @[1] = 0 THEN <<1, 0>> ELSE @,
             !.status = "EFFECTIVE",
             !.effective_date = IF effective_date # NoDate
                                THEN effective_date ELSE t,
             !.is_latest = TRUE]
     ELSE IF i \in prev
     THEN [rows[i] EXCEPT !.status = "OBSOLETE", !.obsolete_date = t]
     ELSE rows[i]]

\* publish_version, lines 1559-1579: the rows one publish writes, given the
\* previous EFFECTIVE versions it has read; t is the handler's `now`
\* (published_at and published_by_id, which no handler reads, are left out)
publish_writes(rows, v, prev, effective_date, t) ==
  [i \in 1..Len(rows) |->
     IF i = v
     THEN [rows[i] EXCEPT
             !.version_string = published_version_string(rows[i].version_string),
             !.status = "EFFECTIVE",
             !.effective_date = IF effective_date # NoDate
                                THEN effective_date ELSE t,
             !.is_latest = TRUE]
     ELSE IF i \in prev
     THEN [rows[i] EXCEPT
             !.status = "OBSOLETE",
             !.obsolete_date = t,
             !.replaced_by_version_id = v,
             !.is_latest = FALSE]
     ELSE rows[i]]

\* a publish that does not ask whether the admin has viewed the version
publish_response_unviewed(u, d, v, password) ==
  IF ~verify_esignature(u, password)
  THEN Response(HTTP_401_UNAUTHORIZED, "E-signature authentication failed")
  ELSE IF ~is_admin(u)
  THEN Response(HTTP_403_FORBIDDEN, "Only DMS Admins can publish documents")
  ELSE IF ~version_found(d, v)
  THEN Response(HTTP_404_NOT_FOUND, "Version not found")
  ELSE IF versions[v].status # "APPROVED"
  THEN Response(HTTP_400_BAD_REQUEST, "Can only publish Approved versions")
  ELSE Response(HTTP_200_OK, "")

publish_response(u, d, v, password) ==
  IF ~verify_esignature(u, password)
  THEN Response(HTTP_401_UNAUTHORIZED, "E-signature authentication failed")
  ELSE IF ~is_admin(u)
  THEN Response(HTTP_403_FORBIDDEN, "Only DMS Admins can publish documents")
  ELSE IF ~version_found(d, v)
  THEN Response(HTTP_404_NOT_FOUND, "Version not found")
  ELSE IF ~has_user_viewed_content(u, v)
  THEN Response(HTTP_400_BAD_REQUEST, "You must view the document content")
  ELSE IF versions[v].status # "APPROVED"
  THEN Response(HTTP_400_BAD_REQUEST, "Can only publish Approved versions")
  ELSE Response(HTTP_200_OK, "")

\* POST /{document_id}/versions/{version_id}/publish, run as one transaction
publish_version(u, d, v, password) ==
  IF ~Ok(publish_response(u, d, v, password)) THEN UNCHANGED vars
  ELSE /\ \E effective_date \in EffectiveDates :
            versions' = publish_writes(versions, v,
                                       previous_effective_versions(d, v),
                                       effective_date, now)
       /\ documents' = [documents EXCEPT ![d] =
                          [current_version_id |-> v, status |-> "EFFECTIVE"]]
       /\ UNCHANGED <<views, locks, nextLockId, now, pc, req, last,
                      audit_logs, users, issued>>

archive_response(u, d, v, password) ==
  IF ~verify_esignature(u, password)
  THEN Response(HTTP_401_UNAUTHORIZED, "E-signature authentication failed")
  ELSE IF ~is_admin(u)
  THEN Response(HTTP_403_FORBIDDEN, "Only DMS Admins can archive documents")
  ELSE IF ~version_found(d, v)
  THEN Response(HTTP_404_NOT_FOUND, "Version not found")
  ELSE Response(HTTP_200_OK, "")

\* POST /{document_id}/versions/{version_id}/archive
archive_version(u, d, v, password) ==
  IF ~Ok(archive_response(u, d, v, password)) THEN UNCHANGED vars
  ELSE /\ versions' = [versions EXCEPT ![v].status = "ARCHIVED"]
       /\ documents' = IF documents[d].current_version_id = v
                       THEN [documents EXCEPT ![d].status = "ARCHIVED"]
                       ELSE documents
       /\ UNCHANGED <<views, locks, nextLockId, now, pc, req, last,
                      audit_logs, users, issued>>

\* db.query(DocumentView).filter(version_id == version_id, user_id == user_id)
ViewsOf(u, v) == {r \in views : r.version_id = v /\ r.user_id = u}

\* the DocumentView row mark_content_as_viewed builds, lines 340-345
NewView(u, d, v, t) ==
  [document_id |-> d, version_id |-> v, user_id |-> u, viewed_at |-> t]

\* mark_content_as_viewed: the first row found is given a new viewed_at; a row
\* is added when none is found
mark_content_as_viewed(u, d, v) ==
  IF ViewsOf(u, v) # {}
  THEN LET view_record == CHOOSE r \in ViewsOf(u, v) : TRUE
       IN (views \ {view_record}) \cup {[view_record EXCEPT !.viewed_at = now]}
  ELSE views \cup {NewView(u, d, v, now)}

mark_viewed_response(u, d, v) ==
  IF ~version_found(d, v)
  THEN Response(HTTP_404_NOT_FOUND, "Version not found")
  ELSE Response(HTTP_200_OK, "")

\* POST /{document_id}/versions/{version_id}/mark-viewed
mark_version_as_viewed(u, d, v) ==
  IF ~Ok(mark_viewed_response(u, d, v)) THEN UNCHANGED vars
  ELSE /\ views' = mark_content_as_viewed(u, d, v)
       /\ UNCHANGED <<versions, documents, locks, nextLockId, now, pc, req, last,
                      audit_logs, users, issued>>

----------------------------------------------------------------------------
(* Edit-lock manager (edit_locks.py, models/edit_lock.py) *)

\* lock tokens a request may carry: generate_token never repeats a token, the
\* n-th lock row created carries token n
Tokens == 1..MaxLocks

\* can_acquire_lock without its status check
can_acquire_lock_any_status(u, d, v) ==
  IF is_admin(u) THEN TRUE
  ELSE IF has_role(u, "Author")
          /\ (DocOwner[d] = u \/ versions[v].created_by_id = u) THEN TRUE
  ELSE FALSE

\* can_acquire_lock
can_acquire_lock(u, d, v) ==
  IF versions[v].status # "DRAFT" THEN FALSE
  ELSE IF is_admin(u) THEN TRUE
  ELSE IF has_role(u, "Author")
          /\ (DocOwner[d] = u \/ versions[v].created_by_id = u) THEN TRUE
  ELSE FALSE

\* db.query(EditLock).filter(document_version_id == version_id)
LocksOf(v) == {lock \in locks : lock.document_version_id = v}

\* ... .first(), when there is a row
existing_lock(v) == CHOOSE lock \in LocksOf(v) : TRUE

\* db.query(EditLock).filter(document_version_id == version_id,
\*                           lock_token == lock_token)
LocksByToken(v, lock_token) ==
  {lock \in LocksOf(v) : lock.lock_token = lock_token}

\* EditLock.default_expiry at time t
default_expiry(minutes, t) == t + minutes

\* EditLock.refresh at time t
refresh(lock, extend_minutes, t) ==
  [lock EXCEPT !.last_heartbeat = t, !.expires_at = t + extend_minutes]

\* the EditLock row acquire_lock builds, lines 112-123, without the columns
\* no handler reads back (acquired_at, session_id, ip_address, user_agent)
NewLock(id, v, u, timeout_minutes, t) ==
  [id |-> id, document_version_id |-> v, user_id |-> u, lock_token |-> id,
   expires_at |-> default_expiry(timeout_minutes, t), last_heartbeat |-> t]

\* an edit_locks table without its constraints
no_unique_violation(rows, new) == FALSE

\* uq_edit_locks_document_version_id, and lock_token unique: the INSERT of
\* new into rows raises IntegrityError
unique_violation(rows, new) ==
  \E r \in rows : \/ r.document_version_id = new.document_version_id
                  \/ r.lock_token = new.lock_token

\* acquire_lock without its check of the lock's owner, lines 89-99
acquire_lock_response_unchecked(u, d, v) ==
  IF ~version_found(d, v)
  THEN Response(HTTP_404_NOT_FOUND, "Version not found")
  ELSE IF ~can_acquire_lock(u, d, v)
  THEN Response(HTTP_403_FORBIDDEN,
                "Not authorized to lock this version or version is not a draft")
  ELSE Response(HTTP_200_OK, "")

\* acquire_lock refusing every caller while a live lock exists
acquire_lock_response_any_owner(u, d, v) ==
  IF ~version_found(d, v)
  THEN Response(HTTP_404_NOT_FOUND, "Version not found")
  ELSE IF ~can_acquire_lock(u, d, v)
  THEN Response(HTTP_403_FORBIDDEN,
                "Not authorized to lock this version or version is not a draft")
  ELSE IF LocksOf(v) # {} /\ ~is_expired(existing_lock(v), now)
  THEN [code |-> HTTP_423_LOCKED, detail |-> "Version is currently locked by",
        owner |-> existing_lock(v).user_id,
        expires |-> existing_lock(v).expires_at]
  ELSE Response(HTTP_200_OK, "")

\* acquire_lock, lines 47-99: what the handler answers before it writes
acquire_lock_response(u, d, v) ==
  IF ~version_found(d, v)
  THEN Response(HTTP_404_NOT_FOUND, "Version not found")
  ELSE IF ~can_acquire_lock(u, d, v)
  THEN Response(HTTP_403_FORBIDDEN,
                "Not authorized to lock this version or version is not a draft")
  ELSE IF /\ LocksOf(v) # {}
          /\ ~is_expired(existing_lock(v), now)
          /\ existing_lock(v).user_id # u
  THEN [code |-> HTTP_423_LOCKED, detail |-> "Version is currently locked by",
        owner |-> existing_lock(v).user_id,
        expires |-> existing_lock(v).expires_at]
  ELSE Response(HTTP_200_OK, "")

\* POST /{document_id}/versions/{version_id}/lock, run without interleaving
acquire_lock(u, d, v, timeout_minutes) ==
  LET r == acquire_lock_response(u, d, v) IN
  IF ~Ok(r)
  THEN /\ last' = Answer(u, v, r.code, NoId, "refused")
       /\ UNCHANGED <<versions, documents, views, locks, nextLockId, now, pc, req,
                      audit_logs, users, issued>>
  ELSE IF LocksOf(v) # {} /\ ~is_expired(existing_lock(v), now)
  THEN \* lines 100-105: the caller owns the live lock
       /\ locks' = (locks \ {existing_lock(v)})
                     \cup {refresh(existing_lock(v), timeout_minutes, now)}
       /\ last' = Answer(u, v, HTTP_200_OK, existing_lock(v).lock_token,
                        "refreshed")
       /\ UNCHANGED <<versions, documents, views, nextLockId, now, pc, req,
                      audit_logs, users, issued>>
  ELSE \* lines 106-134: delete the expired row, if any, and insert
       /\ nextLockId < MaxLocks
       /\ LET kept == IF LocksOf(v) # {} THEN locks \ {existing_lock(v)} ELSE locks
              new == NewLock(nextLockId + 1, v, u, timeout_minutes, now)
          IN IF unique_violation(kept, new)
             THEN /\ locks' = kept
                  /\ last' = Answer(u, v, HTTP_423_LOCKED, NoId, "lost")
             ELSE /\ locks' = kept \cup {new}
                  /\ last' = Answer(u, v, HTTP_200_OK, new.lock_token,
                                   IF kept = locks THEN "created"
                                   ELSE "replaced")
       /\ nextLockId' = nextLockId + 1
       /\ UNCHANGED <<versions, documents, views, now, pc, req,
                      audit_logs, users, issued>>

\* refresh_lock, lines 231-247
refresh_lock_response(u, v, lock_token) ==
  IF LocksByToken(v, lock_token) = {}
  THEN Response(HTTP_404_NOT_FOUND, "Lock not found or invalid token")
  ELSE IF (CHOOSE lock \in LocksByToken(v, lock_token) : TRUE).user_id # u
  THEN Response(HTTP_403_FORBIDDEN, "Not the lock owner")
  ELSE Response(HTTP_200_OK, "")

\* POST /{document_id}/versions/{version_id}/lock/heartbeat: what the
\* handler does to the store
refresh_lock(u, v, lock_token, extend_minutes) ==
  /\ locks' = IF Ok(refresh_lock_response(u, v, lock_token))
              THEN LET lock == CHOOSE l \in LocksByToken(v, lock_token) : TRUE
                   IN (locks \ {lock}) \cup {refresh(lock, extend_minutes, now)}
              ELSE locks
  /\ UNCHANGED <<versions, documents, views, nextLockId, now, pc, req,
                 audit_logs, users, issued>>

\* a release that answers 404 when it finds no lock
release_lock_response_strict(u, v, lock_token) ==
  IF LocksByToken(v, lock_token) = {}
  THEN Response(HTTP_404_NOT_FOUND, "Lock not found or invalid token")
  ELSE IF (CHOOSE lock \in LocksByToken(v, lock_token) : TRUE).user_id # u
          /\ ~is_admin(u)
  THEN Response(HTTP_403_FORBIDDEN, "Not the lock owner")
  ELSE Response(HTTP_204_NO_CONTENT, "")

\* a release that does not look at who calls
release_lock_response_any_caller(u, v, lock_token) ==
  Response(HTTP_204_NO_CONTENT, "")

\* release_lock, lines 273-288
release_lock_response(u, v, lock_token) ==
  IF LocksByToken(v, lock_token) = {}
  THEN Response(HTTP_204_NO_CONTENT, "")
  ELSE IF (CHOOSE lock \in LocksByToken(v, lock_token) : TRUE).user_id # u
          /\ ~is_admin(u)
  THEN Response(HTTP_403_FORBIDDEN, "Not the lock owner")
  ELSE Response(HTTP_204_NO_CONTENT, "")

\* DELETE /{document_id}/versions/{version_id}/lock: what the handler does
\* to the store
release_lock(u, v, lock_token) ==
  LET r == release_lock_response(u, v, lock_token) IN
  /\ locks' = IF Ok(r) THEN locks \ LocksByToken(v, lock_token) ELSE locks
  /\ UNCHANGED <<versions, documents, views, nextLockId, now, pc, req,
                 audit_logs, users, issued>>

\* check_lock_status, lines 169-213: the EditLockStatus it returns
check_lock_status_response(u, d, v) ==
  IF ~version_found(d, v)
  THEN Response(HTTP_404_NOT_FOUND, "Version not found")
  ELSE IF LocksOf(v) = {} \/ is_expired(existing_lock(v), now)
  THEN [code |-> HTTP_200_OK, detail |-> "", is_locked |-> FALSE,
        can_acquire |-> can_acquire_lock(u, d, v), lock_token |-> NoId]
  ELSE [code |-> HTTP_200_OK, detail |-> "", is_locked |-> TRUE,
        can_acquire |-> FALSE,
        lock_token |-> IF existing_lock(v).user_id = u
                       THEN existing_lock(v).lock_token ELSE NoId]

\* GET /{document_id}/versions/{version_id}/lock: what the handler does to
\* the store
check_lock_status(u, d, v) ==
  UNCHANGED <<versions, documents, views, locks, nextLockId, now, pc, req,
              audit_logs, users, issued>>

\* datetime.utcnow() moves on
Tick ==
  /\ now + TickStep <= MaxTime
  /\ now' = now + TickStep
  /\ UNCHANGED <<versions, documents, views, locks, nextLockId, pc, req, last,
                 audit_logs, users, issued>>

----------------------------------------------------------------------------
(* The version workflow, every request one transaction *)

\* the users whose document_views rows some handler reads
Viewers(US) ==
  {u \in US : has_role(u, "Reviewer") \/ has_role(u, "Approver") \/ is_admin(u)}

\* the e-signed requests users US may send on documents DS: any version with
\* the right password; a wrong password is refused before the store is read,
\* so one target stands for all
SignedRequests(US, DS) ==
  {r \in US \X DS \X VersionIds \X Passwords :
     r[4] = "bad" => (r[2] = "D1" /\ r[3] = 1)}

WorkflowNext(US, DS) ==
  \/ \E u \in US, d \in DS : create_version(u, d)
  \/ \E u \in US, d \in DS, v \in VersionIds :
       create_new_version_from_existing(u, d, v)
  \/ \E r \in SignedRequests(US, DS) : submit_for_review(r[1], r[2], r[3], r[4])
  \/ \E r \in SignedRequests(US, DS) : approve_version(r[1], r[2], r[3], r[4])
  \/ \E r \in SignedRequests(US, DS) : reject_version(r[1], r[2], r[3], r[4])
  \/ \E r \in SignedRequests(US, DS) : archive_version(r[1], r[2], r[3], r[4])
  \/ \E u \in Viewers(US), d \in DS, v \in VersionIds :
       mark_version_as_viewed(u, d, v)

\* saves of the workflow: the properties of the workflow read no content, and
\* a save writes the empty content again
SaveNext(US, DS) ==
  /\ saves_committed(Len(versions)) < MaxSaves
  /\ \E u \in US, d \in DS, v \in VersionIds,
        h \in {None, compute_content_hash(NoContent)} :
       save_version_content(u, d, v, NoContent, NoId, h)
  /\ UNCHANGED last

PublishNext(US, DS) ==
  \E r \in SignedRequests(US, DS) : publish_version(r[1], r[2], r[3], r[4])

\* every version operation on one document, by an admin and the owner
Next ==
  \/ WorkflowNext({"admin"}, {"D1"})
  \/ SaveNext({"admin"}, {"D1"})
  \/ PublishNext({"admin"}, {"D1"})

Spec == Init /\ [][Next]_vars

\* the review workflow on two documents
NextDocs ==
  \/ WorkflowNext({"admin"}, Docs)
  \/ PublishNext({"admin"}, Docs)

SpecDocs == Init /\ [][NextDocs]_vars

----------------------------------------------------------------------------
(* The review workflow on one document with every role taking part: the   *)
(* admin, the owner of the document, an author who does not own it, a      *)
(* reviewer and an approver                                                *)

\* the e-signed requests of every user on D1
RoleRequests == SignedRequests(Users, {"D1"})

\* every user sends every request on the first versions of D1
NextRoles ==
  \/ Len(versions) < MaxReviewed /\ \E u \in Users : create_version(u, "D1")
  \/ \E r \in RoleRequests : submit_for_review(r[1], r[2], r[3], r[4])
  \/ \E r \in RoleRequests : approve_version(r[1], r[2], r[3], r[4])
  \/ \E r \in RoleRequests : reject_version(r[1], r[2], r[3], r[4])
  \/ \E r \in RoleRequests : publish_version(r[1], r[2], r[3], r[4])
  \/ \E r \in RoleRequests : archive_version(r[1], r[2], r[3], r[4])
  \/ \E u \in Viewers(Users), v \in VersionIds :
       mark_version_as_viewed(u, "D1", v)

SpecRoles == Init /\ [][NextRoles]_vars

----------------------------------------------------------------------------
(* The lock manager on the versions of one document, every request run    *)
(* without interleaving                                                    *)

\* the <<version_id, lock_token>> pairs that heartbeat and release requests
\* carry: the token of a row of the table, or the token acquire last returned
\* (NoId when it returned none; stale once its row is gone).  A request with
\* any other token finds no row and writes nothing.
PresentedTokens ==
  {<<lock.document_version_id, lock.lock_token>> : lock \in locks}
    \cup {<<last.ver, last.lock_token>>}

\* an admin, the owner of D1, and an author who neither owns D1 nor created
\* a version of it
LockUsers == {"admin", "author1", "author2"}

NextLock ==
  \/ Len(versions) < MaxLockVersions /\ create_version("author1", "D1")
  \/ \E v \in VersionIds : submit_for_review("author1", "D1", v, "good")
  \/ \E u \in LockUsers, v \in VersionIds, t \in Timeouts :
       acquire_lock(u, "D1", v, t)
  \/ \E u \in LockUsers, h \in PresentedTokens, t \in Timeouts :
       refresh_lock(u, h[1], h[2], t) /\ UNCHANGED last
  \/ \E u \in LockUsers, h \in PresentedTokens :
       release_lock(u, h[1], h[2]) /\ UNCHANGED last
  \/ Tick

SpecLock == Init /\ [][NextLock]_vars

----------------------------------------------------------------------------
(* An editing session on the first version of a document: locks,          *)
(* heartbeats, saves and releases, every request run without interleaving. *)
(* The caller keeps the answer to its last request in last.                *)

\* the answer to a heartbeat or to a release, and the path the handler took
LockAnswer(u, v, r, lock_token, branch) ==
  Answer(u, v, r.code, lock_token, branch)

\* the answer to a save: on 409 it carries X-Current-Content-Hash
SaveAnswer(u, v, r, lock_token) ==
  [user |-> u, ver |-> v, code |-> r.code, lock_token |-> lock_token,
   branch |-> "save",
   current_content_hash |-> IF r.code = HTTP_409_CONFLICT
                            THEN r.current_content_hash ELSE None]

\* DocumentVersionSave.lock_token: absent, or a token the caller may present
SaveTokens == {NoId} \cup {h[2] : h \in PresentedTokens}

\* DocumentVersionSave.content_hash: absent, or the hash of some content
SaveHashes == {None} \cup {compute_content_hash(c) : c \in Contents}

NextEdit ==
  \/ versions = <<>> /\ create_version("author1", "D1")
  \/ \E u \in LockUsers, v \in VersionIds :
       acquire_lock(u, "D1", v, TIMEOUT_MIN)
  \/ \E u \in LockUsers, h \in PresentedTokens :
       /\ refresh_lock(u, h[1], h[2], TIMEOUT_MIN)
       /\ last' = LockAnswer(u, h[1], refresh_lock_response(u, h[1], h[2]),
                             h[2], "heartbeat")
  \/ \E u \in LockUsers, h \in PresentedTokens :
       /\ release_lock(u, h[1], h[2])
       /\ last' = LockAnswer(u, h[1], release_lock_response(u, h[1], h[2]),
                             h[2],
                             IF LocksByToken(h[1], h[2]) = {} THEN "absent"
                             ELSE "release")
  \/ /\ saves_committed(Len(versions)) < MaxEdits
     /\ \E u \in LockUsers, v \in VersionIds, c \in Contents,
           tok \in SaveTokens, h \in SaveHashes :
          /\ save_version_content(u, "D1", v, c, tok, h)
          /\ last' = SaveAnswer(u, v, save_response(u, "D1", v, tok, h), tok)
  \/ Tick

SpecEdit == Init /\ [][NextEdit]_vars

----------------------------------------------------------------------------
(* Every handler on one store: the owner of D1 edits and submits the       *)
(* first version, the admin views it and takes it through the workflow,    *)
(* and both use the lock manager; every request run without interleaving,  *)
(* at one time of the clock                                                *)

\* the users of the lock manager here
Editors == {"admin", "author1"}

\* the answer to a status request: the token is returned to the lock's owner
StatusAnswer(u, v, r) ==
  LockAnswer(u, v, r, IF Ok(r) THEN r.lock_token ELSE NoId, "status")

NextTables ==
  \/ versions = <<>> /\ create_version("author1", "D1")
  \/ /\ saves_committed(Len(versions)) < MaxSaves
     /\ \E u \in Editors, v \in VersionIds, tok \in SaveTokens :
          save_version_content(u, "D1", v, Body, tok, None)
     /\ UNCHANGED last
  \/ \E v \in VersionIds : submit_for_review("author1", "D1", v, "good")
  \/ \E v \in VersionIds : approve_version("admin", "D1", v, "good")
  \/ \E v \in VersionIds : reject_version("admin", "D1", v, "good")
  \/ \E v \in VersionIds : publish_version("admin", "D1", v, "good")
  \/ \E v \in VersionIds : archive_version("admin", "D1", v, "good")
  \/ \E v \in VersionIds : mark_version_as_viewed("admin", "D1", v)
  \/ \E u \in Editors, v \in VersionIds : acquire_lock(u, "D1", v, TIMEOUT_MIN)
  \/ \E u \in Editors, h \in PresentedTokens :
       refresh_lock(u, h[1], h[2], TIMEOUT_MAX) /\ UNCHANGED last
  \/ \E u \in Editors, h \in PresentedTokens :
       release_lock(u, h[1], h[2]) /\ UNCHANGED last
  \/ \E u \in Editors, v \in VersionIds :
       /\ check_lock_status(u, "D1", v)
       /\ last' = StatusAnswer(u, v, check_lock_status_response(u, "D1", v))

SpecTables == Init /\ [][NextTables]_vars

----------------------------------------------------------------------------
(* Publish requests served by two workers on one store.  A worker runs the *)
(* handler up to its query of the previous EFFECTIVE versions (lines       *)
(* 1497-1554) in one step and flushes and commits its writes (lines        *)
(* 1559-1586) in a later one; the store gives a commit no protection       *)
(* against rows another request committed after the read.                  *)

Request(op, u, d, v, timeout_minutes, seen, effective_date) ==
  [op |-> op, user |-> u, doc |-> d, ver |-> v, timeout |-> timeout_minutes,
   seen |-> seen, effective_date |-> effective_date]

\* publish_version, lines 1497-1554
publish_read(p, u, d, v, password, effective_date) ==
  /\ pc[p] = "idle"
  /\ IF ~Ok(publish_response(u, d, v, password)) THEN UNCHANGED vars
     ELSE /\ pc' = [pc EXCEPT ![p] = "publish_commit"]
          /\ req' = [req EXCEPT ![p] =
                       Request("publish", u, d, v, 0,
                               previous_effective_versions(d, v),
                               effective_date)]
          /\ UNCHANGED <<versions, documents, views, locks, nextLockId, now, last,
                         audit_logs, users, issued>>

\* publish_version, lines 1559-1586
publish_commit(p) ==
  /\ pc[p] = "publish_commit"
  /\ versions' = publish_writes(versions, req[p].ver, req[p].seen,
                                req[p].effective_date, now)
  /\ documents' = [documents EXCEPT ![req[p].doc] =
                     [current_version_id |-> req[p].ver, status |-> "EFFECTIVE"]]
  /\ pc' = [pc EXCEPT ![p] = "idle"]
  /\ req' = [req EXCEPT ![p] =
               Request("published", req[p].user, req[p].doc, req[p].ver, 0, {},
                       NoDate)]
  /\ UNCHANGED <<views, locks, nextLockId, now, last,
                 audit_logs, users, issued>>

NextPub ==
  \/ WorkflowNext({"admin"}, {"D1"})
  \/ \E p \in Procs, v \in VersionIds, pw \in Passwords, ed \in EffectiveDates :
       publish_read(p, "admin", "D1", v, pw, ed)
  \/ \E p \in Procs : publish_commit(p)

SpecPub == Init /\ [][NextPub]_vars

----------------------------------------------------------------------------
(* Mark-viewed requests served by two workers on one store while the       *)
(* version is submitted for review.  A worker runs the handler up to the query *)
(* of mark_content_as_viewed (lines 1637-1660, 330-333) in one step and    *)
(* writes and commits (lines 335-348) in a later one.                      *)

\* a document_views table without its constraint
no_view_unique_violation(rows, new) == FALSE

\* uq_version_user_view: the INSERT of new into rows raises IntegrityError
view_unique_violation(rows, new) ==
  \E r \in rows : r.version_id = new.version_id /\ r.user_id = new.user_id

\* mark_version_as_viewed, lines 1637-1660, and mark_content_as_viewed, lines
\* 330-333
view_read(p, u, d, v) ==
  /\ pc[p] = "idle"
  /\ IF ~Ok(mark_viewed_response(u, d, v)) THEN UNCHANGED vars
     ELSE /\ pc' = [pc EXCEPT ![p] = "view_commit"]
          /\ req' = [req EXCEPT ![p] =
                       Request("view", u, d, v, 0, ViewsOf(u, v), NoDate)]
          /\ UNCHANGED <<versions, documents, views, locks, nextLockId, now, last,
                         audit_logs, users, issued>>

\* mark_content_as_viewed, lines 335-348: UPDATE the row that was read, or
\* INSERT a new one; an INSERT the constraint refuses writes nothing
view_commit(p) ==
  /\ pc[p] = "view_commit"
  /\ LET new == NewView(req[p].user, req[p].doc, req[p].ver, now)
     IN IF req[p].seen # {}
        THEN /\ views' = {IF r.version_id = new.version_id
                             /\ r.user_id = new.user_id
                          THEN [r EXCEPT !.viewed_at = now] ELSE r : r \in views}
             /\ req' = [req EXCEPT ![p] =
                          Request("refreshed", req[p].user, req[p].doc, req[p].ver,
                                  0, {}, NoDate)]
        ELSE IF view_unique_violation(views, new)
        THEN /\ views' = views
             /\ req' = [req EXCEPT ![p] =
                          Request("refused", req[p].user, req[p].doc, req[p].ver,
                                  0, {}, NoDate)]
        ELSE /\ views' = views \cup {new}
             /\ req' = [req EXCEPT ![p] =
                          Request("viewed", req[p].user, req[p].doc, req[p].ver,
                                  0, {}, NoDate)]
  /\ pc' = [pc EXCEPT ![p] = "idle"]
  /\ UNCHANGED <<versions, documents, locks, nextLockId, now, last,
                 audit_logs, users, issued>>

\* the admin and the reviewer view the versions the admin submits
NextViews ==
  \/ Len(versions) < MaxReviewed /\ create_version("admin", "D1")
  \/ \E v \in VersionIds : submit_for_review("admin", "D1", v, "good")
  \/ \E p \in Procs, u \in {"admin", "reviewer"}, v \in VersionIds :
       view_read(p, u, "D1", v)
  \/ \E p \in Procs : view_commit(p)
  \/ Tick

SpecViews == Init /\ [][NextViews]_vars

----------------------------------------------------------------------------
(* Acquire requests served by two workers on one store.  A worker runs the *)
(* handler up to its decision on the existing lock (lines 47-105) in one   *)
(* step; the DELETE of an expired row and its commit (lines 106-109) and   *)
(* the INSERT of the new row and its commit (lines 112-134) are later      *)
(* steps of their own.                                                     *)

\* acquire_lock, lines 47-105
acquire_read(p, u, d, v, timeout_minutes) ==
  /\ pc[p] = "idle"
  /\ IF ~Ok(acquire_lock_response(u, d, v)) THEN UNCHANGED vars
     ELSE IF LocksOf(v) # {} /\ ~is_expired(existing_lock(v), now)
     THEN /\ locks' = (locks \ {existing_lock(v)})
                        \cup {refresh(existing_lock(v), timeout_minutes, now)}
          /\ req' = [req EXCEPT ![p] =
                       Request("refreshed", u, d, v, 0, {}, NoDate)]
          /\ UNCHANGED <<versions, documents, views, nextLockId, now, pc, last,
                         audit_logs, users, issued>>
     ELSE /\ pc' = [pc EXCEPT ![p] =
                      IF LocksOf(v) # {} THEN "acquire_delete"
                      ELSE "acquire_insert"]
          /\ req' = [req EXCEPT ![p] =
                       Request("acquire", u, d, v, timeout_minutes,
                               LocksOf(v), NoDate)]
          /\ UNCHANGED <<versions, documents, views, locks, nextLockId, now, last,
                         audit_logs, users, issued>>

\* acquire_lock, lines 106-109: DELETE FROM edit_locks WHERE id = the id of
\* the row read, whatever that row holds by now
acquire_delete(p) ==
  /\ pc[p] = "acquire_delete"
  /\ locks' = {lock \in locks : \A seen \in req[p].seen : lock.id # seen.id}
  /\ pc' = [pc EXCEPT ![p] = "acquire_insert"]
  /\ UNCHANGED <<versions, documents, views, nextLockId, now, req, last,
                 audit_logs, users, issued>>

\* acquire_lock, lines 112-134
acquire_insert(p) ==
  /\ pc[p] = "acquire_insert"
  /\ nextLockId < MaxLocks
  /\ LET new == NewLock(nextLockId + 1, req[p].ver, req[p].user,
                        req[p].timeout, now)
     IN IF unique_violation(locks, new)
        THEN /\ locks' = locks
             /\ req' = [req EXCEPT ![p] =
                          Request("lost", req[p].user, req[p].doc, req[p].ver,
                                  0, {}, NoDate)]
        ELSE /\ locks' = locks \cup {new}
             /\ req' = [req EXCEPT ![p] =
                          Request("acquired", req[p].user, req[p].doc,
                                  req[p].ver, 0, {}, NoDate)]
  /\ nextLockId' = nextLockId + 1
  /\ pc' = [pc EXCEPT ![p] = "idle"]
  /\ UNCHANGED <<versions, documents, views, now, last,
                 audit_logs, users, issued>>

NextAcq ==
  \/ Len(versions) < MaxLockVersions /\ create_version("author1", "D1")
  \/ \E p \in Procs, u \in {"admin", "author1"}, v \in VersionIds :
       acquire_read(p, u, "D1", v, TIMEOUT_MIN)
  \/ \E p \in Procs : acquire_delete(p)
  \/ \E p \in Procs : acquire_insert(p)
  \/ \E u \in {"admin", "author1"}, h \in PresentedTokens :
       refresh_lock(u, h[1], h[2], TIMEOUT_MIN) /\ UNCHANGED last
  \/ \E u \in {"admin", "author1"}, h \in PresentedTokens :
       release_lock(u, h[1], h[2]) /\ UNCHANGED last
  \/ Tick

SpecAcq == Init /\ [][NextAcq]_vars

----------------------------------------------------------------------------
(* Properties of the version workflow *)

EffectiveVersions(d) == {i \in VersionsOf(d) : versions[i].status = "EFFECTIVE"}

\* C1: whatever sequence of create_version, create-new-from-effective, save,
\* submit, approve, reject, publish and archive calls has run, each as one
\* atomic step, every document has at most one version with status EFFECTIVE.
C1_AtMostOneEffective ==
  \A d \in Docs : Cardinality(EffectiveVersions(d)) <= 1

\* a saved version was published and later replaced by the version that is
\* EFFECTIVE now
C1_Witness ==
  \E d \in Docs : \E i \in VersionsOf(d), j \in VersionsOf(d) :
    /\ versions[i].status = "EFFECTIVE"
    /\ versions[j].status = "OBSOLETE"
    /\ versions[j].lock_version > 0

\* C3: a successful publish of version v leaves v EFFECTIVE with is_latest set
\* and effective_date the supplied date or the time of the call; every other
\* version of the document that was EFFECTIVE is OBSOLETE, replaced by v, no
\* longer latest, with obsolete_date the time of the call; every other row is
\* as it was; all of it in the one step that commits.  (publish_response
\* answers 401 or 403 to a caller who is no admin or whose signature fails,
\* so the callers that can publish are tested first.)
C3_PublishEffects ==
  [][\A u \in Users, pw \in Passwords :
       (is_admin(u) /\ verify_esignature(u, pw)) =>
     \A d \in Docs, v \in VersionIds :
       (/\ version_found(d, v)
        /\ Ok(publish_response(u, d, v, pw))
        /\ publish_version(u, d, v, pw)) =>
         /\ Len(versions') = Len(versions)
         /\ versions'[v].status = "EFFECTIVE"
         /\ versions'[v].is_latest
         /\ versions'[v].effective_date \in (EffectiveDates \ {NoDate}) \cup {now}
         /\ \A i \in 1..Len(versions) \ {v} :
              IF versions[i].document_id = d /\ versions[i].status = "EFFECTIVE"
              THEN /\ versions'[i].status = "OBSOLETE"
                   /\ versions'[i].replaced_by_version_id = v
                   /\ ~versions'[i].is_latest
                   /\ versions'[i].obsolete_date = now
              ELSE versions'[i] = versions[i]]_vars

\* version v was published with a supplied date over a version that was
\* EFFECTIVE
C3_Witness ==
  \E v \in 1..Len(versions), i \in 1..Len(versions) :
    /\ versions[v].status = "EFFECTIVE"
    /\ versions[v].effective_date = 100
    /\ versions[i].status = "OBSOLETE"
    /\ versions[i].replaced_by_version_id = v

\* the e-signed requests of the admin on D1
AdminRequests == SignedRequests({"admin"}, {"D1"})

\* the changes of status the state machine allows
StateMachine ==
  {<<"DRAFT", "UNDER_REVIEW">>, <<"UNDER_REVIEW", "PENDING_APPROVAL">>,
   <<"PENDING_APPROVAL", "APPROVED">>, <<"UNDER_REVIEW", "DRAFT">>,
   <<"PENDING_APPROVAL", "DRAFT">>, <<"APPROVED", "EFFECTIVE">>,
   <<"EFFECTIVE", "OBSOLETE">>}
    \cup {<<s, "ARCHIVED">> : s \in VersionStatus \ {"ARCHIVED"}}

\* the versions whose status the step changes
StatusChanged == {i \in 1..Len(versions) : versions'[i].status # versions[i].status}

\* the step changes the status of version v alone, from one of the statuses
\* from to status to
Moves(v, from, to) ==
  /\ StatusChanged = {v}
  /\ versions[v].status \in from
  /\ versions'[v].status = to

\* C20: every change of status follows the state machine.  submit moves its
\* version from DRAFT to UNDER_REVIEW; approve from UNDER_REVIEW to
\* PENDING_APPROVAL or from PENDING_APPROVAL to APPROVED; reject from either
\* back to DRAFT; publish moves its version from APPROVED to EFFECTIVE and the
\* EFFECTIVE versions of the document to OBSOLETE; archive moves its version
\* to ARCHIVED from any status; create, create-new, save and view change the
\* status of no existing version; and an ARCHIVED version stays ARCHIVED.
C20_StatusFollowsStateMachine ==
  [][(versions' # versions) =>
     /\ Len(versions') >= Len(versions)
     /\ \A i \in 1..Len(versions) :
          versions[i].status = "ARCHIVED" => versions'[i].status = "ARCHIVED"
     /\ \A i \in StatusChanged :
          <<versions[i].status, versions'[i].status>> \in StateMachine
     /\ \A r \in AdminRequests :
          /\ (/\ Ok(submit_response(r[1], r[2], r[3], r[4]))
              /\ submit_for_review(r[1], r[2], r[3], r[4]))
               => Moves(r[3], {"DRAFT"}, "UNDER_REVIEW")
          /\ (/\ Ok(approve_response(r[1], r[2], r[3], r[4]))
              /\ approve_version(r[1], r[2], r[3], r[4]))
               => \/ Moves(r[3], {"UNDER_REVIEW"}, "PENDING_APPROVAL")
                  \/ Moves(r[3], {"PENDING_APPROVAL"}, "APPROVED")
          /\ (/\ Ok(reject_response(r[1], r[2], r[3], r[4]))
              /\ reject_version(r[1], r[2], r[3], r[4]))
               => Moves(r[3], {"UNDER_REVIEW", "PENDING_APPROVAL"}, "DRAFT")
          /\ (/\ Ok(publish_response(r[1], r[2], r[3], r[4]))
              /\ publish_version(r[1], r[2], r[3], r[4]))
               => /\ versions[r[3]].status = "APPROVED"
                  /\ versions'[r[3]].status = "EFFECTIVE"
                  /\ \A i \in StatusChanged \ {r[3]} :
                       /\ versions[i].document_id = r[2]
                       /\ versions[i].status = "EFFECTIVE"
                       /\ versions'[i].status = "OBSOLETE"
          /\ (/\ Ok(archive_response(r[1], r[2], r[3], r[4]))
              /\ archive_version(r[1], r[2], r[3], r[4]))
               => (StatusChanged \subseteq {r[3]}
                   /\ versions'[r[3]].status = "ARCHIVED")
     /\ StatusChanged # {}
          => /\ ~create_version("admin", "D1")
             /\ \A v \in VersionIds :
                  /\ ~create_new_version_from_existing("admin", "D1", v)
                  /\ ~mark_version_as_viewed("admin", "D1", v)
                  /\ \A h \in SaveHashes :
                       ~save_version_content("admin", "D1", v, NoContent, NoId,
                                               h)]_vars

\* a version that a publish made OBSOLETE has been archived, and the version
\* that replaced it is EFFECTIVE
C20_Witness ==
  \E v \in 1..Len(versions), w \in 1..Len(versions) :
    /\ versions[v].status = "ARCHIVED"
    /\ versions[v].replaced_by_version_id = w
    /\ versions[w].status = "EFFECTIVE"

\* the pre-effective form v0.x of a version_string <<major, minor>>
PreEffective(vstring) == vstring[1] = 0

\* C28: a publish, the step that takes version v from APPROVED to EFFECTIVE,
\* leaves v with version_string v1.0 if the string was v0.x and with the
\* string it had otherwise, and leaves the version_string of every other
\* version as it was.
C28_PublishRenumbers ==
  [][\A v \in 1..Len(versions) :
       (versions[v].status = "APPROVED" /\ versions'[v].status = "EFFECTIVE") =>
         /\ publish_version("admin", "D1", v, "good")
         /\ versions'[v].version_string =
              IF PreEffective(versions[v].version_string) THEN <<1, 0>>
              ELSE versions[v].version_string
         /\ \A i \in 1..Len(versions) \ {v} :
              versions'[i].version_string = versions[i].version_string]_vars

\* v0.1 was published as v1.0 and is OBSOLETE, and the version cloned from
\* it, numbered v1.1 or v2.0 at its creation, is EFFECTIVE under that number
C28_Witness ==
  \E v \in 1..Len(versions), w \in 1..Len(versions) :
    /\ versions[v].status = "OBSOLETE"
    /\ versions[v].version_string = <<1, 0>>
    /\ versions[w].status = "EFFECTIVE"
    /\ versions[w].parent_version_id = v
    /\ versions[w].version_string \in {<<1, 1>>, <<2, 0>>}

\* the versions of document d that have been published: publish alone sets
\* effective_date
EverEffective(d) == {i \in VersionsOf(d) : versions[i].effective_date # NoDate}

\* C29: no document has two versions that reached EFFECTIVE under the same
\* version_string, v1.0 being given to the first effective release only.
C29_EffectiveNumbersDiffer ==
  \A d \in Docs : \A i \in EverEffective(d), j \in EverEffective(d) :
    i # j => versions[i].version_string # versions[j].version_string

\* C30: the versions of a document that are not OBSOLETE include at most one
\* with is_latest set.
C30_OneLatest ==
  \A d \in Docs :
    Cardinality({i \in VersionsOf(d) :
                   versions[i].status # "OBSOLETE" /\ versions[i].is_latest}) <= 1

----------------------------------------------------------------------------
(* Properties of the review workflow with every role taking part.  A       *)
(* request that is refused writes nothing and so is no step: what it would *)
(* answer in a state is given by its *_response operator, and "it changes  *)
(* nothing" says that no step of the handler out of that state changes a   *)
(* variable.                                                               *)

\* the versions a request on D1 may name that exist
Reviewed == {v \in VersionIds : version_found("D1", v)}

\* the user's own password and a wrong one
WrongPassword == "bad"

\* the answer of verify_esignature to a password that does not verify
ESignatureFailed(r) ==
  r = Response(HTTP_401_UNAUTHORIZED, "E-signature authentication failed")

\* C21: submit, approve, reject, publish and archive called with a password
\* that does not verify answer 401 "E-signature authentication failed",
\* whoever calls, whatever the status of the version and whether or not the
\* caller has viewed it, and no such call changes any row.
C21_WrongPasswordRefused ==
  \A u \in Users, v \in VersionIds :
    /\ ESignatureFailed(submit_response(u, "D1", v, WrongPassword))
    /\ ESignatureFailed(approve_response(u, "D1", v, WrongPassword))
    /\ ESignatureFailed(reject_response(u, "D1", v, WrongPassword))
    /\ ESignatureFailed(publish_response(u, "D1", v, WrongPassword))
    /\ ESignatureFailed(archive_response(u, "D1", v, WrongPassword))
    /\ ~ENABLED (submit_for_review(u, "D1", v, WrongPassword) /\ vars' # vars)
    /\ ~ENABLED (approve_version(u, "D1", v, WrongPassword) /\ vars' # vars)
    /\ ~ENABLED (reject_version(u, "D1", v, WrongPassword) /\ vars' # vars)
    /\ ~ENABLED (publish_version(u, "D1", v, WrongPassword) /\ vars' # vars)
    /\ ~ENABLED (archive_version(u, "D1", v, WrongPassword) /\ vars' # vars)

\* a version is under review and the reviewer has viewed it: the reviewer's
\* approval goes through with the right password and is refused with a wrong
\* one
C21_Witness ==
  \E v \in Reviewed :
    /\ versions[v].status = "UNDER_REVIEW"
    /\ Ok(approve_response("reviewer", "D1", v, "good"))
    /\ ESignatureFailed(approve_response("reviewer", "D1", v, WrongPassword))

\* C22: submit is accepted only from an admin or from an Author who owns the
\* document: in no state does the handler accept the submission of a version
\* by an Author who does not own its document.
C22_SubmitByOwnerOrAdmin ==
  \A u \in Users, v \in VersionIds :
    Ok(submit_response(u, "D1", v, "good"))
      => (is_admin(u) \/ (has_role(u, "Author") /\ DocOwner["D1"] = u))

\* the handler refuses the request with 403 and no step of it changes a row
PermissionDenied(r, changes) == r.code = HTTP_403_FORBIDDEN /\ ~changes

\* C23: a caller who signs with the right password but lacks the role of the
\* gating table is refused with 403 and changes nothing: approve of an
\* UNDER_REVIEW version by a caller who is neither Reviewer nor admin, approve
\* of a PENDING_APPROVAL version by a caller who is neither Approver nor
\* admin, reject by a caller who is none of Reviewer, Approver and admin,
\* publish and archive by a caller who is no admin.  So each of these
\* transitions is made only by a caller holding the role.
C23_RoleGates ==
  \A u \in Users :
    /\ ~is_admin(u) =>
         \A v \in VersionIds :
           /\ PermissionDenied(publish_response(u, "D1", v, "good"),
                  ENABLED (publish_version(u, "D1", v, "good") /\ vars' # vars))
           /\ PermissionDenied(archive_response(u, "D1", v, "good"),
                  ENABLED (archive_version(u, "D1", v, "good") /\ vars' # vars))
    /\ \A v \in Reviewed :
         /\ (/\ versions[v].status = "UNDER_REVIEW"
             /\ ~(has_role(u, "Reviewer") \/ is_admin(u)))
              => PermissionDenied(approve_response(u, "D1", v, "good"),
                   ENABLED (approve_version(u, "D1", v, "good") /\ vars' # vars))
         /\ (/\ versions[v].status = "PENDING_APPROVAL"
             /\ ~(has_role(u, "Approver") \/ is_admin(u)))
              => PermissionDenied(approve_response(u, "D1", v, "good"),
                   ENABLED (approve_version(u, "D1", v, "good") /\ vars' # vars))
         /\ ~(has_role(u, "Reviewer") \/ has_role(u, "Approver") \/ is_admin(u))
              => PermissionDenied(reject_response(u, "D1", v, "good"),
                   ENABLED (reject_version(u, "D1", v, "good") /\ vars' # vars))

\* a version is pending approval and the reviewer, who has viewed it, is
\* refused the approval that the approver is granted
C23_Witness ==
  \E v \in Reviewed :
    /\ versions[v].status = "PENDING_APPROVAL"
    /\ has_user_viewed_content("reviewer", v)
    /\ approve_response("reviewer", "D1", v, "good").code = HTTP_403_FORBIDDEN
    /\ Ok(approve_response("approver", "D1", v, "good"))

\* the answer of the view gate
ContentNotViewed(r) ==
  r = Response(HTTP_400_BAD_REQUEST, "You must view the document content")

\* requires_view as the gate is specified
requires_view(u, v) ==
  \/ versions[v].status = "UNDER_REVIEW" /\ (has_role(u, "Reviewer") \/ is_admin(u))
  \/ versions[v].status = "PENDING_APPROVAL"
       /\ (has_role(u, "Approver") \/ is_admin(u))

\* in this state the view gate asks u to view v exactly when requires_view
\* says so; if it does and u has no view row, approve and reject by u answer
\* 400 and change nothing; if it does and u has one, both are accepted
ViewGate(u, v) ==
  /\ requires_content_view(u, v) <=> requires_view(u, v)
  /\ (requires_view(u, v) /\ ~has_user_viewed_content(u, v)) =>
       /\ ContentNotViewed(approve_response(u, "D1", v, "good"))
       /\ ContentNotViewed(reject_response(u, "D1", v, "good"))
       /\ ~ENABLED (approve_version(u, "D1", v, "good") /\ vars' # vars)
       /\ ~ENABLED (reject_version(u, "D1", v, "good") /\ vars' # vars)
  /\ (requires_view(u, v) /\ has_user_viewed_content(u, v)) =>
       /\ Ok(approve_response(u, "D1", v, "good"))
       /\ Ok(reject_response(u, "D1", v, "good"))

\* C24: while requires_view(u, v) holds and u has not viewed v, every approve
\* and every reject by u on v answers 400 "You must view the document
\* content" and changes nothing; u has viewed v only once mark-viewed has run
\* for (v, u), which leaves u with a view row; and from then on the view gate
\* no longer blocks u's approve and reject on v.
C24_ViewBeforeDecision ==
  /\ [](\A u \in Users, v \in Reviewed : ViewGate(u, v))
  /\ [][\A u \in Users, v \in Reviewed :
         /\ (~has_user_viewed_content(u, v) /\ has_user_viewed_content(u, v)')
              => mark_version_as_viewed(u, "D1", v)
         /\ (views' # views /\ mark_version_as_viewed(u, "D1", v))
              => has_user_viewed_content(u, v)'
         /\ has_user_viewed_content(u, v) => has_user_viewed_content(u, v)']_vars

\* the reviewer viewed the version and it went on to approval, where the
\* approver, who has not viewed it, is held back by the view gate
C24_Witness ==
  \E v \in Reviewed :
    /\ versions[v].status = "PENDING_APPROVAL"
    /\ has_user_viewed_content("reviewer", v)
    /\ ~has_user_viewed_content("admin", v)
    /\ ContentNotViewed(approve_response("approver", "D1", v, "good"))

\* C25: a publish by an admin who has no view row for the version answers 400
\* "You must view the document content" and changes nothing, whatever the
\* status of the version; and every step that makes a version EFFECTIVE is a
\* publish by an admin who has a view row for that version.
C25_PublishNeedsView ==
  /\ [](\A u \in Users, v \in Reviewed :
         (is_admin(u) /\ ~has_user_viewed_content(u, v)) =>
           /\ ContentNotViewed(publish_response(u, "D1", v, "good"))
           /\ ~ENABLED (publish_version(u, "D1", v, "good") /\ vars' # vars))
  /\ [][\A v \in Reviewed :
         (versions[v].status # "EFFECTIVE" /\ versions'[v].status = "EFFECTIVE")
           => \E u \in Users :
                /\ is_admin(u)
                /\ has_user_viewed_content(u, v)
                /\ publish_version(u, "D1", v, "good")]_vars

\* the reviewer and the approver have approved a version that the admin has
\* not viewed, and the admin's publish is held back
C25_Witness ==
  \E v \in Reviewed :
    /\ versions[v].status = "APPROVED"
    /\ ~has_user_viewed_content("admin", v)
    /\ ContentNotViewed(publish_response("admin", "D1", v, "good"))

----------------------------------------------------------------------------
(* Properties of the view gate, mark-viewed requests interleaving *)

\* C26: in every state document_views holds at most one row for a version and
\* a user.  A step that writes the table is the commit of a mark-viewed
\* request: it adds the row of its version and its user when there is none
\* and otherwise changes only viewed_at of that row; no step removes a row,
\* so a user who has viewed a version has viewed it ever after.
C26_OneViewRow ==
  /\ [](\A r \in views, q \in views :
         (r.version_id = q.version_id /\ r.user_id = q.user_id) => r = q)
  /\ [][views' # views =>
         \E p \in Procs :
           /\ view_commit(p)
           /\ \A r \in views :
                \E q \in views' :
                  /\ q = [r EXCEPT !.viewed_at = q.viewed_at]
                  /\ (q # r => /\ q.viewed_at = now
                               /\ r.version_id = req[p].ver
                               /\ r.user_id = req[p].user)
           /\ \A q \in views' \ views :
                q = NewView(req[p].user, req[p].doc, req[p].ver, now)
           /\ \A u \in Users, v \in VersionIds :
                has_user_viewed_content(u, v) => has_user_viewed_content(u, v)']_vars

\* one worker has refreshed the row of a view at a later time, and the
\* other's INSERT, which raced with the INSERT of that row, was refused by the
\* constraint
C26_Witness ==
  /\ \E r \in views : r.viewed_at > 0
  /\ \E p \in Procs : req[p].op = "refreshed"
  /\ \E p \in Procs : req[p].op = "refused"

----------------------------------------------------------------------------
(* Properties of the three tables under every handler *)

\* C27: each table has one writer.  acquire, heartbeat, release and the lock
\* status request leave document_versions, documents and document_views as
\* they are, and the status request leaves edit_locks as it is too; create,
\* save, submit, approve, reject, publish and archive leave edit_locks and
\* document_views as they are, a submit of a locked version included;
\* mark-viewed leaves document_versions, documents and edit_locks as they
\* are.  So no step writes two of the tables.
C27_OneWriterPerTable ==
  [][/\ \A u \in Editors, v \in VersionIds :
          /\ UNCHANGED <<versions, documents, views>>
               \/ ~acquire_lock(u, "D1", v, TIMEOUT_MIN)
          /\ UNCHANGED <<versions, documents, views, locks, nextLockId>>
               \/ ~(/\ check_lock_status(u, "D1", v)
                     /\ last' = StatusAnswer(u, v,
                                   check_lock_status_response(u, "D1", v)))
          /\ UNCHANGED <<locks, nextLockId, views>>
               \/ /\ \A tok \in SaveTokens :
                        ~(/\ save_version_content(u, "D1", v, Body, tok, None)
                          /\ UNCHANGED last)
                  /\ ~create_version(u, "D1")
                  /\ ~submit_for_review(u, "D1", v, "good")
                  /\ ~approve_version(u, "D1", v, "good")
                  /\ ~reject_version(u, "D1", v, "good")
                  /\ ~publish_version(u, "D1", v, "good")
                  /\ ~archive_version(u, "D1", v, "good")
          /\ UNCHANGED <<versions, documents, locks, nextLockId>>
               \/ ~mark_version_as_viewed(u, "D1", v)
     /\ \A u \in Editors, h \in PresentedTokens :
          UNCHANGED <<versions, documents, views>>
            \/ /\ ~(refresh_lock(u, h[1], h[2], TIMEOUT_MAX) /\ UNCHANGED last)
               /\ ~(release_lock(u, h[1], h[2]) /\ UNCHANGED last)
     /\ (versions' # versions \/ documents' # documents)
          => UNCHANGED <<locks, nextLockId, views>>
     /\ locks' # locks => UNCHANGED <<versions, documents, views>>
     /\ views' # views => UNCHANGED <<versions, documents, locks, nextLockId>>]_vars

\* a version that was saved under a lock has been submitted, and the lock row
\* of the editing session is still in the table
C27_Witness ==
  \E v \in 1..Len(versions) :
    /\ versions[v].status = "UNDER_REVIEW"
    /\ versions[v].lock_version > 0
    /\ \E lock \in LocksOf(v) : lock.user_id = "author1"

----------------------------------------------------------------------------
(* Properties of the lock manager, requests run without interleaving.      *)
(* acquire_lock(u, d, v, t) records its answer to u about v in last, so a   *)
(* step is an acquire by u on v only if last'.user = u and last'.ver = v:   *)
(* the formulas test that first and acquire_lock itself last.               *)

\* the live locks on version v that user u does not own
LiveForeignLocks(u, v) ==
  {lock \in LocksOf(v) : ~is_expired(lock, now) /\ lock.user_id # u}

\* the live locks on version v that user u owns
LiveOwnLocks(u, v) ==
  {lock \in LocksOf(v) : ~is_expired(lock, now) /\ lock.user_id = u}

\* acquire answers 423 with the owner and the expiry of the lock in its
\* headers, and writes no row
RefusedWithConflict(u, d, v, lock) ==
  /\ acquire_lock_response(u, d, v).code = HTTP_423_LOCKED
  /\ acquire_lock_response(u, d, v).owner = lock.user_id
  /\ acquire_lock_response(u, d, v).expires = lock.expires_at
  /\ last'.code = HTTP_423_LOCKED
  /\ locks' = locks

\* C5 as stated: acquire on a DRAFT version that has an unexpired lock of
\* another user answers 423 (LockConflict) naming the lock's owner and its
\* expires_at, and leaves the lock row as it was, whoever the caller is.
C5_Original ==
  [][\A d \in Docs, v \in VersionIds : (version_found(d, v) /\ last'.ver = v) =>
     \A u \in Users : last'.user = u => \A t \in Timeouts :
       (/\ versions[v].status = "DRAFT"
        /\ LiveForeignLocks(u, v) # {}
        /\ acquire_lock(u, d, v, t))
       => \A lock \in LiveForeignLocks(u, v) : RefusedWithConflict(u, d, v, lock)]_vars

\* C5, amended: acquire by a caller who may lock the version (can_acquire_lock:
\* an admin, or an Author who owns the document or created the version), on a
\* DRAFT version that has an unexpired lock of another user, answers 423
\* (LockConflict) naming the lock's owner and its expires_at, and leaves the
\* lock row as it was.
C5_ConflictForPermittedCaller ==
  [][\A d \in Docs, v \in VersionIds : (version_found(d, v) /\ last'.ver = v) =>
     \A u \in Users : last'.user = u => \A t \in Timeouts :
       (/\ versions[v].status = "DRAFT"
        /\ can_acquire_lock(u, d, v)
        /\ LiveForeignLocks(u, v) # {}
        /\ acquire_lock(u, d, v, t))
       => \A lock \in LiveForeignLocks(u, v) : RefusedWithConflict(u, d, v, lock)]_vars

\* a permitted caller was just refused with 423 on a version another user
\* holds a live lock on
C5_Witness ==
  /\ last.code = HTTP_423_LOCKED
  /\ last.branch = "refused"
  /\ LiveForeignLocks(last.user, last.ver) # {}

\* acquire by user u left version v with exactly one lock row, owned by u,
\* whose token is the one returned, and heartbeat, save and release accept
\* that token from u
OwnedAndUsable(u, d, v) ==
  /\ last'.code = HTTP_200_OK
  /\ Cardinality(LocksOf(v)') = 1
  /\ \A lock \in LocksOf(v)' :
       lock.user_id = u /\ lock.lock_token = last'.lock_token
  /\ Ok(refresh_lock_response(u, v, last.lock_token))'
  /\ Ok(save_response(u, d, v, last.lock_token, None))'
  /\ Ok(release_lock_response(u, v, last.lock_token))'
  /\ LocksByToken(v, last.lock_token)' # {}

\* C7 as stated: acquire by the user who owns an unexpired lock on the
\* version succeeds without a second row, and the returned token is accepted
\* by heartbeat, save and release.
C7_Original ==
  [][\A d \in Docs, v \in VersionIds : (version_found(d, v) /\ last'.ver = v) =>
     \A u \in Users : last'.user = u => \A t \in Timeouts :
       (/\ LiveOwnLocks(u, v) # {}
        /\ acquire_lock(u, d, v, t))
       => OwnedAndUsable(u, d, v)]_vars

\* C7, amended: while the version is still DRAFT, acquire by the user who owns
\* an unexpired lock on it succeeds without a second row: afterwards the
\* version has exactly one lock, owned by that user, and the returned token is
\* accepted by heartbeat, save and release.
C7_ReacquireOnDraft ==
  [][\A d \in Docs, v \in VersionIds : (version_found(d, v) /\ last'.ver = v) =>
     \A u \in Users : last'.user = u => \A t \in Timeouts :
       (/\ versions[v].status = "DRAFT"
        /\ LiveOwnLocks(u, v) # {}
        /\ acquire_lock(u, d, v, t))
       => (OwnedAndUsable(u, d, v) /\ last'.branch = "refreshed"
           /\ nextLockId' = nextLockId)]_vars

\* the owner of a live lock has just acquired it again
C7_Witness ==
  /\ last.code = HTTP_200_OK
  /\ last.branch = "refreshed"
  /\ \E lock \in LocksOf(last.ver) :
       lock.user_id = last.user /\ lock.lock_token = last.lock_token

\* C8: a lock is expired iff now > expires_at: at now = expires_at it still
\* refuses another user.  Once it is expired, acquire by any user who may
\* lock the DRAFT version succeeds: the expired row is gone and the version has
\* exactly one row, owned by the caller, with a token no row carried before.
C8_ExpiredLockIsReplaced ==
  [][\A d \in Docs, v \in VersionIds : (version_found(d, v) /\ last'.ver = v) =>
     \A u \in Users : last'.user = u => \A t \in Timeouts :
       (/\ can_acquire_lock(u, d, v)
        /\ LocksOf(v) # {}
        /\ acquire_lock(u, d, v, t))
       => \A lock \in LocksOf(v) :
            /\ is_expired(lock, now) <=> now > lock.expires_at
            /\ (now <= lock.expires_at /\ lock.user_id # u)
                 => (last'.code = HTTP_423_LOCKED /\ locks' = locks)
            /\ now > lock.expires_at
                 => /\ last'.code = HTTP_200_OK
                    /\ lock \notin locks'
                    /\ Cardinality(LocksOf(v)') = 1
                    /\ \A new \in LocksOf(v)' :
                         /\ new.user_id = u
                         /\ new.lock_token = last'.lock_token
                         /\ new.lock_token \notin {l.lock_token : l \in locks}
                         /\ new.expires_at = now + t]_vars

\* an expired lock of one user has just been replaced by a lock of another
C8_Witness ==
  /\ last.code = HTTP_200_OK
  /\ last.branch = "replaced"
  /\ \E lock \in LocksOf(last.ver) :
       lock.user_id = last.user /\ lock.lock_token = last.lock_token

C10_HeartbeatExtends ==
  [][\A u \in Users, v \in VersionIds, tok \in Tokens, t \in Timeouts :
       (/\ Ok(refresh_lock_response(u, v, tok))
        /\ refresh_lock(u, v, tok, t))
       => \A lock \in LocksByToken(v, tok) :
            \E new \in LocksByToken(v, tok)' :
              /\ new.expires_at >= lock.expires_at
              /\ new.last_heartbeat = now]_vars

----------------------------------------------------------------------------
(* Saves served by two workers on one database: a worker reads the version *)
(* and makes its checks, and commits later; the other worker may run in    *)
(* between.  No lock row exists, so the lock checks pass.                   *)

\* what a worker keeps of a save between its read and its commit: the request
\* and the row it has loaded
SaveRequest(op, u, v, content_html, content_hash, row) ==
  [op |-> op, user |-> u, doc |-> "D1", ver |-> v,
   content_html |-> content_html, content_hash |-> content_hash,
   loaded |-> row]

\* save_version_content, lines 683-750: the queries and the checks
save_read(p, u, v, content_html, content_hash) ==
  /\ pc[p] = "idle"
  /\ version_found("D1", v)
  /\ versions[v].lock_version < MaxEdits
  /\ LET r == save_response(u, "D1", v, NoId, content_hash) IN
     /\ pc' = [pc EXCEPT ![p] = IF Ok(r) THEN "save_commit" ELSE "idle"]
     /\ req' = [req EXCEPT ![p] =
                  SaveRequest(IF Ok(r) THEN "save"
                              ELSE IF r.code = HTTP_409_CONFLICT THEN "conflict"
                              ELSE "refused",
                              u, v, content_html, content_hash, versions[v])]
  /\ UNCHANGED <<versions, documents, views, locks, nextLockId, now, last,
                 audit_logs, users, issued>>

\* save_version_content, lines 759-765: the UPDATE the session flushes sets
\* the attributes whose value differs from the loaded one, to the values
\* computed from the loaded row, and names the row by its id alone
save_commit(p) ==
  /\ pc[p] = "save_commit"
  /\ LET v == req[p].ver
         written == save_writes(<<req[p].loaded>>, 1, req[p].content_html)[1]
     IN
     /\ versions' = [versions EXCEPT ![v] =
                       [@ EXCEPT
                          !.content_html =
                             IF written.content_html = req[p].loaded.content_html
                             THEN @ ELSE written.content_html,
                          !.content_hash =
                             IF written.content_hash = req[p].loaded.content_hash
                             THEN @ ELSE written.content_hash,
                          !.lock_version = written.lock_version]]
     /\ audit_logs' = save_audits(audit_logs, v, FALSE, written.lock_version)
  /\ pc' = [pc EXCEPT ![p] = "idle"]
  /\ req' = [req EXCEPT ![p].op = "saved"]
  /\ UNCHANGED <<documents, views, locks, nextLockId, now, last,
                 users, issued>>

NextSaveRace ==
  \/ versions = <<>> /\ create_version("author1", "D1")
  \/ \E p \in Procs, u \in {"admin", "author1"}, v \in VersionIds,
        c \in Contents, h \in SaveHashes :
       save_read(p, u, v, c, h)
  \/ \E p \in Procs : save_commit(p)

SpecSaveRace == Init /\ [][NextSaveRace]_vars

----------------------------------------------------------------------------
(* Properties of an editing session.  Each request of NextEdit records its *)
(* caller, version, token and path in last, and the formulas test that     *)
(* record first and the handler itself last.                               *)

\* the step is a release by u on v presenting tok
IsRelease(u, v, tok) ==
  /\ last'.branch \in {"release", "absent"}
  /\ last'.user = u /\ last'.ver = v /\ last'.lock_token = tok
  /\ release_lock(u, v, tok)

\* the store but for the lock table
StoreBesidesLocks == <<versions, documents, views, nextLockId, now>>

\* C11: release is idempotent.  A release that is accepted leaves no row
\* with its token, so that calling release again with the same token finds
\* none; a release that finds no row with its token (a second release, or a
\* version with no lock) answers 204 without error and changes nothing.
C11_ReleaseIdempotent ==
  [][\A v \in VersionIds, tok \in Tokens \cup {NoId} : last'.ver = v =>
     \A u \in Users : IsRelease(u, v, tok) =>
       /\ Ok(release_lock_response(u, v, tok))
            => /\ LocksByToken(v, tok)' = {}
               /\ Ok(release_lock_response(u, v, tok))'
               /\ (locks \ LocksByToken(v, tok))' = locks'
       /\ (LocksByToken(v, tok) = {} \/ LocksOf(v) = {})
            => /\ release_lock_response(u, v, tok).code = HTTP_204_NO_CONTENT
               /\ last'.code = HTTP_204_NO_CONTENT
               /\ locks' = locks
               /\ UNCHANGED StoreBesidesLocks]_vars

\* a release presenting a token that was issued, and whose row is gone, has
\* just returned 204
C11_Witness ==
  /\ last.branch = "absent"
  /\ last.code = HTTP_204_NO_CONTENT
  /\ last.lock_token \in 1..nextLockId
  /\ LocksByToken(last.ver, last.lock_token) = {}

IsSave(u, v, c, tok, h) ==
  /\ last'.branch = "save"
  /\ last'.user = u /\ last'.ver = v /\ last'.lock_token = tok
  /\ last' = SaveAnswer(u, v, save_response(u, "D1", v, tok, h), tok)
  /\ save_version_content(u, "D1", v, c, tok, h)

\* C13: lock_version goes up by exactly 1 on each accepted save, so that it
\* is strictly increasing across accepted saves; a save that is rejected
\* (with 409 or otherwise) leaves it as it was, and so does every other
\* request of the session.
C13_LockVersionCountsSaves ==
  [][\A v \in VersionIds : version_found("D1", v) =>
       /\ Len(versions') = Len(versions)
       /\ versions'[v].lock_version >= versions[v].lock_version
       /\ \A u \in Users : (last'.ver = v /\ last'.user = u) =>
            \A c \in Contents, tok \in Tokens \cup {NoId}, h \in SaveHashes :
              IsSave(u, v, c, tok, h) =>
                IF last'.code = HTTP_200_OK
                THEN versions'[v].lock_version = versions[v].lock_version + 1
                ELSE versions' = versions
       /\ versions'[v].lock_version # versions[v].lock_version
            => (last'.branch = "save" /\ last'.code = HTTP_200_OK
                /\ last'.ver = v)]_vars

\* a second save on a version has just been accepted
C13_Witness ==
  /\ last.branch = "save"
  /\ last.code = HTTP_200_OK
  /\ version_found("D1", last.ver)
  /\ versions[last.ver].lock_version = 2

\* C14: a save that supplies a content hash other than the stored one, and
\* that the handler would accept with the stored one, fails with 409
\* (ConcurrencyConflict), reports the stored hash, and leaves content, hash
\* and lock_version as they were; the same save with the reported hash is
\* then accepted.
C14_StaleHashConflict ==
  [][\A v \in VersionIds : (version_found("D1", v) /\ last'.ver = v) =>
     \A u \in Users : last'.user = u =>
       \A c \in Contents, tok \in Tokens \cup {NoId}, h \in SaveHashes :
         (/\ h # None
          /\ h # versions[v].content_hash
          /\ Ok(save_response(u, "D1", v, tok, versions[v].content_hash))
          /\ IsSave(u, v, c, tok, h))
         => /\ save_response(u, "D1", v, tok, h).code = HTTP_409_CONFLICT
            /\ last'.code = HTTP_409_CONFLICT
            /\ last'.current_content_hash = versions[v].content_hash
            /\ versions' = versions
            /\ Ok(save_response(u, "D1", v, tok, last.current_content_hash))']_vars

\* a save with the hash of the content an earlier save replaced has just
\* been refused with 409 and told the stored hash
C14_Witness ==
  /\ last.branch = "save"
  /\ last.code = HTTP_409_CONFLICT
  /\ version_found("D1", last.ver)
  /\ versions[last.ver].lock_version >= 1
  /\ last.current_content_hash = versions[last.ver].content_hash

\* C15: every accepted save was made with a content hash, and that hash was
\* the stored hash of the version when the save was made.
C15_AcceptedSaveComparedHash ==
  [][\A v \in VersionIds : (version_found("D1", v) /\ last'.ver = v) =>
     \A u \in Users : last'.user = u =>
       \A c \in Contents, tok \in Tokens \cup {NoId}, h \in SaveHashes :
         (IsSave(u, v, c, tok, h) /\ last'.code = HTTP_200_OK)
         => (h # None /\ h = versions[v].content_hash)]_vars

\* C17: while a user holds an unexpired lock on a DRAFT version, a save on
\* that version by any other user, an admin included, is refused with 403
\* and changes no row.
C17_LockExcludesOtherSavers ==
  [][\A v \in VersionIds : (version_found("D1", v) /\ last'.ver = v) =>
     \A u \in Users : last'.user = u =>
       \A c \in Contents, tok \in Tokens \cup {NoId}, h \in SaveHashes :
         (/\ versions[v].status = "DRAFT"
          /\ LiveForeignLocks(u, v) # {}
          /\ IsSave(u, v, c, tok, h))
         => /\ save_response(u, "D1", v, tok, h).code = HTTP_403_FORBIDDEN
            /\ last'.code = HTTP_403_FORBIDDEN
            /\ versions' = versions
            /\ locks' = locks]_vars

\* an admin presenting the token of the lock has just been refused a save on
\* a version another user holds a live lock on
C17_Witness ==
  /\ last.branch = "save"
  /\ last.code = HTTP_403_FORBIDDEN
  /\ is_admin(last.user)
  /\ \E lock \in LiveForeignLocks(last.user, last.ver) :
       lock.lock_token = last.lock_token

\* C18: a save is accepted only if the caller holds an unexpired lock on the
\* version and the save carries the token of that lock.
C18_AcceptedSaveHeldLock ==
  [][\A v \in VersionIds : (version_found("D1", v) /\ last'.ver = v) =>
     \A u \in Users : last'.user = u =>
       \A c \in Contents, tok \in Tokens \cup {NoId}, h \in SaveHashes :
         (IsSave(u, v, c, tok, h) /\ last'.code = HTTP_200_OK)
         => \E lock \in LiveOwnLocks(u, v) : lock.lock_token = tok]_vars

\* the step is a heartbeat by u on v presenting tok
IsHeartbeat(u, v, tok) ==
  /\ last'.branch = "heartbeat"
  /\ last'.user = u /\ last'.ver = v /\ last'.lock_token = tok
  /\ \E t \in Timeouts : refresh_lock(u, v, tok, t)

\* C19: once now > expires_at the lock is no longer held: a save by its owner
\* is refused with 403 ("Lock has expired, please reacquire") and changes no
\* row, and a heartbeat presenting its token leaves it expired.
C19_ExpiredLockStaysExpired ==
  [][\A v \in VersionIds : (version_found("D1", v) /\ last'.ver = v) =>
     \A u \in Users : last'.user = u =>
       \A tok \in Tokens, lock \in LocksOf(v) :
         (is_expired(lock, now) /\ lock.user_id = u /\ lock.lock_token = tok)
         => /\ \A c \in Contents, h \in SaveHashes :
                 IsSave(u, v, c, tok, h)
                 => (last'.code = HTTP_403_FORBIDDEN /\ versions' = versions)
            /\ IsHeartbeat(u, v, tok)
                 => \A new \in LocksByToken(v, tok)' : is_expired(new, now)']_vars

----------------------------------------------------------------------------
(* Properties of requests served by two workers *)

\* C16: of two saves on one version that present the same content hash and
\* whose checks both run before either commits (both loaded the same
\* lock_version), at most one is accepted.
C16_InterleavedSaves ==
  \A p \in Procs, q \in Procs :
    ~(/\ p # q
      /\ req[p].op = "saved"
      /\ req[q].op = "saved"
      /\ req[p].ver = req[q].ver
      /\ req[p].content_hash # None
      /\ req[p].content_hash = req[q].content_hash
      /\ req[p].loaded.lock_version = req[q].loaded.lock_version)

\* C2: two publish calls on two different APPROVED versions of one document,
\* their reads and commits interleaved, never both succeed and leave both
\* versions EFFECTIVE.
C2_ConcurrentPublishes ==
  \A p \in Procs, q \in Procs :
    (/\ req[p].op = "published"
     /\ req[q].op = "published"
     /\ req[p].doc = req[q].doc
     /\ req[p].ver # req[q].ver)
    => ~(/\ versions[req[p].ver].status = "EFFECTIVE"
         /\ versions[req[q].ver].status = "EFFECTIVE")

\* C4: every version has at most one edit_locks row, hence at most one live
\* lock, whatever acquire, heartbeat and release requests and clock advances
\* have run, the acquires interleaved.
C4_OneLockRowPerVersion ==
  \A v \in VersionIds : Cardinality(LocksOf(v)) <= 1

\* an acquire lost its INSERT to the row another worker committed first
C4_Witness ==
  \E p \in Procs :
    req[p].op = "lost" /\ Cardinality(LocksOf(req[p].ver)) = 1

\* C6: when acquire calls on one DRAFT version interleave, the version is left
\* with at most one row; a call whose INSERT fails answers an error only if
\* the surviving row is a live lock of another user; and the DELETE of acquire
\* never removes a row that is unexpired when it is deleted.
C6_InterleavedAcquire ==
  [][/\ \A v \in VersionIds : Cardinality(LocksOf(v)') <= 1
     /\ \A p \in Procs :
          (acquire_insert(p) /\ req'[p].op = "lost")
          => \E lock \in LocksOf(req[p].ver)' :
               ~is_expired(lock, now) /\ lock.user_id # req[p].user
     /\ \A p \in Procs :
          acquire_delete(p)
          => \A lock \in locks \ locks' : is_expired(lock, now)]_vars

----------------------------------------------------------------------------
(* Manual saves and autosaves of one version by an admin, with no lock     *)
(* row and no hash to compare                                              *)

NextAudit ==
  \/ versions = <<>> /\ create_version("admin", "D1")
  \/ /\ versions # <<>>
     /\ versions[1].lock_version < MaxAudited
     /\ \E is_autosave \in BOOLEAN :
          save("admin", "D1", 1, Body, NoId, None, is_autosave)
     /\ UNCHANGED last

SpecAudit == Init /\ [][NextAudit]_vars

\* the manual saves of version v the audit log holds
ManualSaves(v) == {e \in audit_logs : e.entity_id = v /\ ~e.is_autosave}

\* the accepted autosaves of version v: a manual save is always logged under
\* the lock_version it gave the version, so the saves lock_version counts
\* that are not in the log as manual saves are autosaves
Autosaves(v) == versions[v].lock_version - Cardinality(ManualSaves(v))

\* C31: every accepted manual save writes an audit entry, and an accepted
\* autosave writes one exactly when it is the 10th, 20th, ... accepted
\* autosave of the version, however many manual saves came in between.
C31_AutosaveAuditedEveryTenth ==
  [][\A is_autosave \in BOOLEAN :
       (/\ versions # <<>>
        /\ save("admin", "D1", 1, Body, NoId, None, is_autosave)
        /\ versions' # versions)
       => IF is_autosave
          THEN (audit_logs' # audit_logs)
               <=> (Autosaves(1)' % AUTOSAVE_AUDIT_EVERY = 0)
          ELSE SaveAudit(1, FALSE, versions'[1].lock_version) \in audit_logs'
               /\ audit_logs' # audit_logs]_vars

\* the policy of line 768 as the handler applies it: a manual save is always
\* logged, an autosave when the save count of the version, manual saves
\* included, is a multiple of 10
C31_AuditedBySaveCount ==
  [][\A is_autosave \in BOOLEAN :
       (/\ versions # <<>>
        /\ save("admin", "D1", 1, Body, NoId, None, is_autosave)
        /\ versions' # versions)
       => ((audit_logs' # audit_logs)
           <=> (~is_autosave
                \/ versions'[1].lock_version % AUTOSAVE_AUDIT_EVERY = 0))]_vars

----------------------------------------------------------------------------
(* Sessions (api/v1/auth.py, api/deps.py).  Every users row is active, so  *)
(* "User account is inactive" is not reachable and is left out.  The       *)
(* helpers of app.core.security are modelled by what their callers rely    *)
(* on: a token is the signed pair of its subject and its expiry, and it    *)
(* decodes if the server signed it and it has not expired.                 *)

\* LoginRequest.username: the users, and a name no users row carries
Usernames == Users \cup {"nobody"}

\* the users who log in
SessionUsers == {"admin", "author1"}

\* create_access_token at time t for user u
create_access_token(u, t) == <<"jwt", u, t + ACCESS_TOKEN_EXPIRE_MINUTES>>

\* decode_access_token: the subject of the token, or no user
decode_access_token(token) ==
  IF token \in issued /\ now < token[3] THEN token[2] ELSE NoUser

\* get_current_user, the guard of every authenticated endpoint (the users
\* row of a decoded token exists, rows being deleted by no request here)
get_current_user_response(token) ==
  IF decode_access_token(token) = NoUser
  THEN Response(HTTP_401_UNAUTHORIZED, "Could not validate credentials")
  ELSE Response(HTTP_200_OK, "")

\* GET /auth/validate-session: the "valid" of the answer
validate_session(token) ==
  /\ decode_access_token(token) # NoUser
  /\ users[decode_access_token(token)].active_session_token = token

\* a login that does not verify the password
login_response_any_password(username, password, force_login) ==
  IF username \notin Users
  THEN Response(HTTP_401_UNAUTHORIZED, "Incorrect username or password")
  ELSE IF users[username].active_session_token # None /\ ~force_login
  THEN Response(HTTP_409_CONFLICT, "session_conflict")
  ELSE Response(HTTP_200_OK, "")

login_response(username, password, force_login) ==
  IF username \notin Users
  THEN Response(HTTP_401_UNAUTHORIZED, "Incorrect username or password")
  ELSE IF ~verify_password(password, username)
  THEN Response(HTTP_401_UNAUTHORIZED, "Incorrect username or password")
  ELSE IF users[username].active_session_token # None /\ ~force_login
  THEN Response(HTTP_409_CONFLICT, "session_conflict")
  ELSE Response(HTTP_200_OK, "")

\* POST /auth/login (the audit_logs rows LOGIN_FAILED, SESSION_OVERRIDE and
\* USER_LOGIN, which no handler reads, are left out)
login(username, password, force_login) ==
  IF ~Ok(login_response(username, password, force_login)) THEN UNCHANGED vars
  ELSE LET access_token == create_access_token(username, now)
       IN /\ users' = [users EXCEPT ![username] =
                         [active_session_token |-> access_token,
                          session_created_at |-> now, last_login |-> now]]
          /\ issued' = issued \cup {access_token}
          /\ UNCHANGED <<versions, documents, views, locks, nextLockId, now,
                         pc, req, last, audit_logs>>

\* POST /auth/logout by the bearer of token
logout(token) ==
  IF ~Ok(get_current_user_response(token)) THEN UNCHANGED vars
  ELSE /\ users' = [users EXCEPT
                      ![decode_access_token(token)].active_session_token = None,
                      ![decode_access_token(token)].session_created_at = NoDate]
       /\ UNCHANGED <<versions, documents, views, locks, nextLockId, now,
                      pc, req, last, audit_logs, issued>>

\* logins with every username, password and force_login, logouts with the
\* tokens the server has signed, and the clock
NextAuth ==
  \/ \E username \in SessionUsers \cup {"nobody"}, password \in Passwords,
        force_login \in BOOLEAN :
       login(username, password, force_login)
  \/ \E token \in issued : logout(token)
  \/ Tick

SpecAuth == Init /\ [][NextAuth]_vars

----------------------------------------------------------------------------
(* Properties of the sessions *)

\* the tokens of user u that an authenticated endpoint accepts
AcceptedTokens(u) ==
  {token \in issued : Ok(get_current_user_response(token)) /\ token[2] = u}

\* the first half of C32, which holds: a login with the right password and
\* without force_login of a user whose row stores a session is answered 409
\* and changes no row
C32_ConflictKeepsSession ==
  \A u \in SessionUsers :
    users[u].active_session_token # None
    => /\ login_response(u, "good", FALSE).code = HTTP_409_CONFLICT
       /\ ~ENABLED (login(u, "good", FALSE) /\ vars' # vars)

\* C32: single-session enforcement.  At any time the authenticated endpoints
\* accept at most one token of a user: once a login with force_login has
\* replaced the session, the token issued before it is accepted no more.
C32_OneAcceptedToken ==
  \A u \in SessionUsers : Cardinality(AcceptedTokens(u)) <= 1

\* C33: a login with an unknown username, or with a password that does not
\* verify, is answered 401, signs no token and changes no users row, so that
\* active_session_token, session_created_at and last_login are what they
\* were, whatever session the row stores and however often it is tried.
C33_FailedLoginChangesNothing ==
  \A username \in Usernames, password \in Passwords, force_login \in BOOLEAN :
    (username \notin Users \/ ~verify_password(password, username))
    => /\ login_response(username, password, force_login).code
            = HTTP_401_UNAUTHORIZED
       /\ ~ENABLED (login(username, password, force_login)
                    /\ <<users, issued>>' # <<users, issued>>)

\* the admin has a session, so that a login with the right password and
\* force_login would replace it, and a login with a wrong password is
\* answered 401
C33_Witness ==
  /\ users["admin"].active_session_token # None
  /\ users["admin"].last_login < now
  /\ Ok(login_response("admin", "good", TRUE))
  /\ login_response("admin", "bad", TRUE).code = HTTP_401_UNAUTHORIZED
  /\ ENABLED (login("admin", "good", TRUE) /\ users' # users)

----------------------------------------------------------------------------
(* Properties of the order of the checks, with every role taking part *)

\* the answer to a transition asked from the wrong source status
InvalidStateTransition(r) ==
  r \in {Response(HTTP_400_BAD_REQUEST, "Can only submit Draft versions"),
         Response(HTTP_400_BAD_REQUEST, "Cannot approve version with status"),
         Response(HTTP_400_BAD_REQUEST, "Cannot reject version with status"),
         Response(HTTP_400_BAD_REQUEST, "Can only publish Approved versions")}

\* C34: the checks of a transition come in the order e-signature, role,
\* source status, view, and the answer is that of the first check that
\* fails.  A caller who signs with the right password and is neither
\* Reviewer nor Approver nor admin is answered 403 by approve whatever the
\* status of the version, a DRAFT one included; and an admin who signs with
\* the right password is answered InvalidStateTransition by publish for a
\* version that is not APPROVED, viewed or not.
C34_EarliestFailingCheck ==
  \A u \in Users, v \in Reviewed :
    /\ ~(has_role(u, "Reviewer") \/ has_role(u, "Approver") \/ is_admin(u))
         => approve_response(u, "D1", v, "good").code = HTTP_403_FORBIDDEN
    /\ (is_admin(u) /\ versions[v].status # "APPROVED")
         => InvalidStateTransition(publish_response(u, "D1", v, "good"))

\* the order of approve_version and publish_version as they are written:
\* approve applies the view gate, then the role test of the status the
\* version has, and answers 400 for a status that has no role test; publish
\* tests the view before the status
C34_ChecksAsWritten ==
  \A u \in Users, v \in Reviewed :
    /\ versions[v].status \notin {"UNDER_REVIEW", "PENDING_APPROVAL"}
         => InvalidStateTransition(approve_response(u, "D1", v, "good"))
    /\ (is_admin(u) /\ ~has_user_viewed_content(u, v))
         => ContentNotViewed(publish_response(u, "D1", v, "good"))

----------------------------------------------------------------------------
(* The review of one version that has a content, with every role taking    *)
(* part and every request signed with the right password                   *)

\* DocumentVersionSave.content_html of an editor that saves a body: without
\* the signatory page, with a page of tokens, and with a page whose rows of
\* the checker and the approver hold the -NA- defaults
SignedContents == {Body, Body \o <<TOKEN, TOKEN, TOKEN>>, Body \o <<TOKEN, NA, NA>>}

NextSign ==
  \/ versions = <<>> /\ create_version("author1", "D1")
  \/ /\ saves_committed(Len(versions)) < MaxSaves
     /\ \E content_html \in SignedContents :
          save_version_content("author1", "D1", 1, content_html, NoId, None)
     /\ UNCHANGED last
  \/ \E u \in Users : submit_for_review(u, "D1", 1, "good")
  \/ \E u \in Users : approve_version(u, "D1", 1, "good")
  \/ \E u \in Users : reject_version(u, "D1", 1, "good")
  \/ \E u \in Viewers(Users) : mark_version_as_viewed(u, "D1", 1)

SpecSign == Init /\ [][NextSign]_vars

----------------------------------------------------------------------------
(* Properties of the signatory page *)

\* C35: the approval of a version that has a content leaves in the content
\* the signatories of the round that led to it, whatever rounds were
\* rejected before and whoever took part in them: Prepared By is the user of
\* the latest submit, Checked By the user of the latest review approval,
\* Approved By the user who approves; and the fingerprint is the hash of the
\* content so rewritten.
C35_SignatoriesOfTheRound ==
  [][\A u \in Users :
       (/\ versions # <<>>
        /\ versions[1].status = "PENDING_APPROVAL"
        /\ versions[1].content_html # NoContent
        /\ Ok(approve_response(u, "D1", 1, "good"))
        /\ approve_version(u, "D1", 1, "good"))
       => /\ versions'[1].status = "APPROVED"
          /\ versions'[1].content_html
               = <<versions[1].content_html[1], versions[1].submitted_by_id,
                   versions[1].reviewed_by_id, u>>
          /\ versions'[1].content_hash
               = compute_content_hash(versions'[1].content_html)]_vars

\* what the rewrite does: a row of the page that holds a name when a round
\* begins keeps it, and only the rows that still hold their tokens take the
\* signatories of the round
C35_FirstSignatoryStays ==
  [][\A i \in 2..4 :
       (/\ versions # <<>>
        /\ versions'[1].status # "DRAFT"
        /\ Len(versions[1].content_html) = 4
        /\ versions[1].content_html[i] \in Users)
       => versions'[1].content_html[i] = versions[1].content_html[i]]_vars

----------------------------------------------------------------------------
(* Saves served by two workers beside the submission of the version: the   *)
(* submit runs as one transaction between the read and the commit of a     *)
(* save                                                                    *)

NextSaveSubmit ==
  \/ versions = <<>> /\ create_version("author1", "D1")
  \/ \E p \in Procs, u \in {"admin", "author1"}, v \in VersionIds,
        c \in Contents, h \in SaveHashes :
       save_read(p, u, v, c, h)
  \/ \E p \in Procs : save_commit(p)
  \/ \E v \in VersionIds : submit_for_review("author1", "D1", v, "good")

SpecSaveSubmit == Init /\ [][NextSaveSubmit]_vars

\* the first half of C36, which holds: a save of a version that is not DRAFT
\* is answered 403 when it is served, by whoever sends it
C36_SaveOfNonDraftRefused ==
  \A u \in Users, v \in 1..Len(versions), c \in Contents, h \in SaveHashes :
    versions[v].status # "DRAFT"
    => save_response(u, "D1", v, NoId, h).code = HTTP_403_FORBIDDEN

\* C36: the content of a version that is not DRAFT is not changed by a save.
\* Here the only requests are saves and submits, and a submit is accepted
\* for a DRAFT version only, so that every step that finds a version out of
\* DRAFT leaves its content and its fingerprint as they are, the commit of a
\* save that read the version before it was submitted included.
C36_SubmittedContentStays ==
  [][\A v \in 1..Len(versions) :
       versions[v].status # "DRAFT"
       => /\ versions'[v].content_html = versions[v].content_html
          /\ versions'[v].content_hash = versions[v].content_hash]_vars

----------------------------------------------------------------------------
(* Properties of the documents table *)

\* C37: the status of a document is the status of its current version: in
\* every state, a document that has a current version carries the status
\* the row of that version carries.
C37_DocumentStatusFollows ==
  \A d \in Docs :
    documents[d].current_version_id # NoId
    => documents[d].status
         = versions[documents[d].current_version_id].status

\* the handlers that write documents.status are create, create-new, publish
\* and archive; a step that moves the current version by submit, approve or
\* reject leaves the status of the document as it was
C37_ReviewLeavesDocumentStatus ==
  [][\A r \in AdminRequests :
       (\/ submit_for_review(r[1], r[2], r[3], r[4])
        \/ approve_version(r[1], r[2], r[3], r[4])
        \/ reject_version(r[1], r[2], r[3], r[4]))
       => documents' = documents]_vars

----------------------------------------------------------------------------
(* The content and its fingerprint over the whole life of a document *)

HTTP_500_INTERNAL_SERVER_ERROR == 500

\* import_docx_to_version with the status test reading the value the
\* enumeration has
import_docx_response_draft(u, d, v, filename_docx, converted) ==
  IF ~version_found(d, v)
  THEN Response(HTTP_404_NOT_FOUND, "Version not found")
  ELSE IF ~(has_role(u, "Author") \/ is_admin(u))
  THEN Response(HTTP_403_FORBIDDEN,
                "Only Authors and Admins can import documents")
  ELSE IF versions[v].status # "DRAFT"
  THEN Response(HTTP_400_BAD_REQUEST, "Can only import to Draft versions")
  ELSE IF ~filename_docx
  THEN Response(HTTP_400_BAD_REQUEST, "Only .docx files are supported")
  ELSE IF ~converted
  THEN Response(HTTP_500_INTERNAL_SERVER_ERROR, "Failed to import DOCX")
  ELSE Response(HTTP_200_OK, "DOCX imported successfully")

\* import_docx_to_version, the checks in their order: the status test
\* compares VersionStatus.value, one of the uppercase strings, with "Draft"
import_docx_response(u, d, v, filename_docx, converted) ==
  IF ~version_found(d, v)
  THEN Response(HTTP_404_NOT_FOUND, "Version not found")
  ELSE IF ~(has_role(u, "Author") \/ is_admin(u))
  THEN Response(HTTP_403_FORBIDDEN,
                "Only Authors and Admins can import documents")
  ELSE IF versions[v].status # "Draft"
  THEN Response(HTTP_400_BAD_REQUEST, "Can only import to Draft versions")
  ELSE IF ~filename_docx
  THEN Response(HTTP_400_BAD_REQUEST, "Only .docx files are supported")
  ELSE IF ~converted
  THEN Response(HTTP_500_INTERNAL_SERVER_ERROR, "Failed to import DOCX")
  ELSE Response(HTTP_200_OK, "DOCX imported successfully")

\* POST /{document_id}/versions/{version_id}/import/docx: html_content is
\* what docx_to_html makes of the file; the handler writes content_html and
\* leaves content_hash as it is
import_docx_to_version(u, d, v, filename_docx, html_content) ==
  IF ~Ok(import_docx_response(u, d, v, filename_docx, html_content # None))
  THEN UNCHANGED vars
  ELSE /\ versions' = [versions EXCEPT ![v].content_html = html_content]
       /\ UNCHANGED <<documents, views, locks, nextLockId, now, pc, req, last,
                      audit_logs, users, issued>>

\* one document from its first draft to the draft cloned from its effective
\* version: the admin does every step, an author edits and imports; every
\* handler that writes content_html or content_hash takes part
NextHash ==
  \/ create_version("admin", "D1")
  \/ \E v \in VersionIds :
       create_new_version_from_existing("admin", "D1", v)
  \/ /\ saves_committed(Len(versions)) < MaxSaves
     /\ \E u \in {"admin", "author1"}, v \in VersionIds,
           content_html \in SignedContents :
          save_version_content(u, "D1", v, content_html, NoId, None)
     /\ UNCHANGED last
  \/ \E u \in {"admin", "author1"}, v \in VersionIds,
        filename_docx \in BOOLEAN, html_content \in {None, Body} :
       import_docx_to_version(u, "D1", v, filename_docx, html_content)
  \/ \E v \in VersionIds : submit_for_review("admin", "D1", v, "good")
  \/ \E v \in VersionIds : approve_version("admin", "D1", v, "good")
  \/ \E v \in VersionIds : reject_version("admin", "D1", v, "good")
  \/ \E v \in VersionIds : publish_version("admin", "D1", v, "good")
  \/ \E v \in VersionIds : mark_version_as_viewed("admin", "D1", v)

SpecHash == Init /\ [][NextHash]_vars

C39_NeverRejected ==
  \A v \in 1..Len(versions) : versions[v].status # "REJECTED"

\* a version that was submitted with its content, rejected, and is a draft
\* again
C39_Witness ==
  /\ versions # <<>>
  /\ versions[1].status = "DRAFT"
  /\ versions[1].submitted_by_id = "admin"

----------------------------------------------------------------------------
(* Refused requests on the three tables: every handler, with right and     *)
(* wrong passwords, on one document                                        *)

\* a response that carries the status code of an HTTPException
IsError(r) == r.code >= HTTP_400_BAD_REQUEST

\* the rows of document_versions, edit_locks and document_views
Rows == <<versions, locks, views>>

\* the requests of NextTables, the create-new requests that are refused (an
\* accepted one starts the same workflow on a second version) and the
\* requests signed with a wrong password
NextErr ==
  \/ NextTables
  \/ \E u \in Editors, v \in VersionIds :
       /\ IsError(create_new_version_response(u, "D1", v))
       /\ create_new_version_from_existing(u, "D1", v)
  \/ \E u \in Editors : submit_for_review(u, "D1", 1, "bad")
  \/ \E u \in Editors : approve_version(u, "D1", 1, "bad")
  \/ \E u \in Editors : reject_version(u, "D1", 1, "bad")
  \/ \E u \in Editors : publish_version(u, "D1", 1, "bad")
  \/ \E u \in Editors : archive_version(u, "D1", 1, "bad")

SpecErr == Init /\ [][NextErr]_vars

\* C40: a request that is answered with an error leaves document_versions,
\* edit_locks and document_views as they were: submit, approve, reject,
\* publish, archive, save, create-new, acquire, heartbeat and release, each
\* run without interleaving, write no row in a step that answers with a
\* status code of 400 or more.
C40_ErrorLeavesRows ==
  [][/\ \A u \in Editors, v \in VersionIds, password \in Passwords :
          UNCHANGED Rows
            \/ /\ ~(/\ IsError(submit_response(u, "D1", v, password))
                    /\ submit_for_review(u, "D1", v, password))
               /\ ~(/\ IsError(approve_response(u, "D1", v, password))
                    /\ approve_version(u, "D1", v, password))
               /\ ~(/\ IsError(reject_response(u, "D1", v, password))
                    /\ reject_version(u, "D1", v, password))
               /\ ~(/\ IsError(publish_response(u, "D1", v, password))
                    /\ publish_version(u, "D1", v, password))
               /\ ~(/\ IsError(archive_response(u, "D1", v, password))
                    /\ archive_version(u, "D1", v, password))
     /\ \A u \in Editors, v \in VersionIds :
          UNCHANGED Rows
            \/ /\ ~(/\ IsError(create_new_version_response(u, "D1", v))
                    /\ create_new_version_from_existing(u, "D1", v))
               /\ \A tok \in SaveTokens :
                    ~(/\ IsError(save_response(u, "D1", v, tok, None))
                      /\ save_version_content(u, "D1", v, Body, tok, None))
               /\ ~(/\ acquire_lock(u, "D1", v, TIMEOUT_MIN)
                    /\ last'.code >= HTTP_400_BAD_REQUEST)
     /\ \A u \in Editors, h \in PresentedTokens :
          UNCHANGED Rows
            \/ /\ ~(/\ IsError(refresh_lock_response(u, h[1], h[2]))
                    /\ refresh_lock(u, h[1], h[2], TIMEOUT_MAX))
               /\ ~(/\ IsError(release_lock_response(u, h[1], h[2]))
                    /\ release_lock(u, h[1], h[2]))]_vars

\* the admin was refused the lock of a version that its owner holds a live
\* lock on; the version is under review, so a save, a second submit, a
\* publish and a create-new on it are refused too, and so is a heartbeat of
\* the lock by the admin
C40_Witness ==
  /\ last.code = HTTP_423_LOCKED
  /\ last.user = "admin"
  /\ last.ver = 1
  /\ LiveForeignLocks("admin", 1) # {}
  /\ versions[1].status = "UNDER_REVIEW"
  /\ IsError(save_response("author1", "D1", 1, NoId, None))
  /\ IsError(submit_response("author1", "D1", 1, "good"))
  /\ IsError(publish_response("admin", "D1", 1, "good"))
  /\ IsError(archive_response("author1", "D1", 1, "good"))
  /\ IsError(create_new_version_response("admin", "D1", 1))
  /\ \E lock \in LocksOf(1) :
       IsError(refresh_lock_response("admin", 1, lock.lock_token))

====
